---------------------------- MODULE Spec2Model ----------------------------
(***************************************************************************)
(* State-machine model of the XInput bridge shim, dlls/xinput1_3/main.c:   *)
(* the lazily started reader worker, the shared controller snapshot, the   *)
(* public entry points and the library teardown.                           *)
(*                                                                         *)
(* Threads: caller threads (the API entry points), the reader worker       *)
(* (controller_read_thread_proc) and the loader thread running DllMain.    *)
(* Every shared access the code makes outside controller.crit is a step of *)
(* its own, so that the interleavings the code allows are the model's.     *)
(***************************************************************************)
EXTENDS Integers, Sequences, FiniteSets, TLC

(***************************************************************************)
(* Program constants.                                                      *)
(***************************************************************************)
REQUEST_CODE_GET_GAMEPAD == 8
REQUEST_CODE_GET_GAMEPAD_STATE == 9
REQUEST_CODE_RELEASE_GAMEPAD == 10

XUSER_MAX_COUNT == 4
XINPUT_MIN_INDEX_INIT == 3

XINPUT_GAMEPAD_DPAD_UP == 1
XINPUT_GAMEPAD_DPAD_DOWN == 2
XINPUT_GAMEPAD_DPAD_LEFT == 4
XINPUT_GAMEPAD_DPAD_RIGHT == 8
XINPUT_GAMEPAD_START == 16
XINPUT_GAMEPAD_BACK == 32
XINPUT_GAMEPAD_LEFT_THUMB == 64
XINPUT_GAMEPAD_RIGHT_THUMB == 128
XINPUT_GAMEPAD_LEFT_SHOULDER == 256
XINPUT_GAMEPAD_RIGHT_SHOULDER == 512
XINPUT_GAMEPAD_GUIDE == 1024
XINPUT_GAMEPAD_A == 4096
XINPUT_GAMEPAD_B == 8192
XINPUT_GAMEPAD_X == 16384
XINPUT_GAMEPAD_Y == 32768

\* the index that stands for any controller in XInputGetKeystroke
XUSER_INDEX_ANY == 255

JS_STATE_OFF == 0
JS_STATE_LOW == 1
JS_STATE_HIGH == 2

XINPUT_FLAG_GAMEPAD == 1
XINPUT_DEVTYPE_GAMEPAD == 1
XINPUT_DEVSUBTYPE_GAMEPAD == 1

\* One 16-bit limb of a DWORD: TLC's integers are 32-bit signed, so the
\* 32-bit dwPacketNumber is kept as two 16-bit limbs (hi, lo).
LimbModulus == 2 ^ 16

(***************************************************************************)
(* Bounds of the model.                                                    *)
(***************************************************************************)
\* Largest packet number reached one accepted frame at a time; the values
\* between it and the 32-bit maximum are crossed by WorkerFrameBurst.
MaxPackets == 2
\* Datagrams the worker may have sent before its heartbeat is no longer taken.
MaxSent == 2
\* XInputGetKeystroke calls a behaviour makes.
MaxPolls == 3
\* XInputGetKeystroke calls a behaviour makes where the pending differences
\* are drained: 14 buttons, 2 triggers, 2 events per stick, and two more.
MaxDrain == 22

(***************************************************************************)
(* Machine arithmetic.                                                     *)
(***************************************************************************)
Bit(n, i) == (n \div (2 ^ i)) % 2

RECURSIVE OrBits(_, _, _)
OrBits(a, b, i) ==
    IF i < 0 THEN 0
    ELSE (IF Bit(a, i) = 1 \/ Bit(b, i) = 1 THEN 2 ^ i ELSE 0) + OrBits(a, b, i - 1)

\* a | b on 16-bit words
Or16(a, b) == OrBits(a, b, 15)

RECURSIVE AndNotBits(_, _, _)
AndNotBits(a, b, i) ==
    IF i < 0 THEN 0
    ELSE (IF Bit(a, i) = 1 /\ Bit(b, i) = 0 THEN 2 ^ i ELSE 0) + AndNotBits(a, b, i - 1)

\* a & ~b on 16-bit words
AndNot16(a, b) == AndNotBits(a, b, 15)

\* (mutant: the negation saturates at the top of the SHORT range)
Neg16Saturating(x) == IF x = 0 - 32768 THEN 32767 ELSE 0 - x

\* (SHORT)(-x): two's-complement negation in 16 bits
Neg16(x) == (((0 - x) + 32768) % 65536) - 32768

\* DWORD values as limbs
DW(n) == [hi |-> n \div LimbModulus, lo |-> n % LimbModulus]
DWMax == [hi |-> LimbModulus - 1, lo |-> LimbModulus - 1]
\* x + 1 on a DWORD (dwPacketNumber++)
DWInc(x) ==
    IF x.lo = LimbModulus - 1
    THEN [hi |-> (x.hi + 1) % LimbModulus, lo |-> 0]
    ELSE [hi |-> x.hi, lo |-> x.lo + 1]
\* x + n on a DWORD, for n below the limb modulus
DWAdd(x, n) ==
    IF x.lo + n >= LimbModulus
    THEN [hi |-> (x.hi + 1) % LimbModulus, lo |-> x.lo + n - LimbModulus]
    ELSE [hi |-> x.hi, lo |-> x.lo + n]
\* x - y on DWORDs
DWSub(x, y) ==
    IF x.lo < y.lo
    THEN [hi |-> (x.hi - y.hi - 1) % LimbModulus,
          lo |-> x.lo - y.lo + LimbModulus]
    ELSE [hi |-> (x.hi - y.hi) % LimbModulus, lo |-> x.lo - y.lo]
DWLess(x, y) == x.hi < y.hi \/ (x.hi = y.hi /\ x.lo < y.lo)
DWLeq(x, y) == x = y \/ DWLess(x, y)

(***************************************************************************)
(* Protocol codec: controller_update_state's decoding of a GAMEPAD_STATE   *)
(* frame.  A frame is the record of the fields the code reads from the     *)
(* 64-byte buffer: op = buffer[0]; for a GET_GAMEPAD reply id is the int   *)
(* at offset 1; for a GAMEPAD_STATE frame status = buffer[1], id the int   *)
(* at offset 2, buttons the 16 bits at offset 6, dpad = buffer[8] and the  *)
(* four shorts at offsets 9, 11, 13, 15.                                   *)
(***************************************************************************)
\* (mutant: the button at index 9 is decoded as the guide button)
ButtonFlagWithGuide(i) ==
    CASE i = 0 -> XINPUT_GAMEPAD_A
      [] i = 1 -> XINPUT_GAMEPAD_B
      [] i = 2 -> XINPUT_GAMEPAD_X
      [] i = 3 -> XINPUT_GAMEPAD_Y
      [] i = 4 -> XINPUT_GAMEPAD_LEFT_SHOULDER
      [] i = 5 -> XINPUT_GAMEPAD_RIGHT_SHOULDER
      [] i = 6 -> XINPUT_GAMEPAD_BACK
      [] i = 7 -> XINPUT_GAMEPAD_START
      [] i = 8 -> XINPUT_GAMEPAD_LEFT_THUMB
      [] i = 9 -> XINPUT_GAMEPAD_GUIDE
      [] OTHER -> 0

ButtonFlag(i) ==
    CASE i = 0 -> XINPUT_GAMEPAD_A
      [] i = 1 -> XINPUT_GAMEPAD_B
      [] i = 2 -> XINPUT_GAMEPAD_X
      [] i = 3 -> XINPUT_GAMEPAD_Y
      [] i = 4 -> XINPUT_GAMEPAD_LEFT_SHOULDER
      [] i = 5 -> XINPUT_GAMEPAD_RIGHT_SHOULDER
      [] i = 6 -> XINPUT_GAMEPAD_BACK
      [] i = 7 -> XINPUT_GAMEPAD_START
      [] i = 8 -> XINPUT_GAMEPAD_LEFT_THUMB
      [] i = 9 -> XINPUT_GAMEPAD_RIGHT_THUMB
      [] OTHER -> 0

\* the loop for (i = 0; i < 10; i++) of controller_update_state, from i on
RECURSIVE ButtonLoop(_, _, _)
ButtonLoop(w, buttons, i) ==
    IF i >= 10 THEN w
    ELSE ButtonLoop(IF Bit(buttons, i) = 1 THEN Or16(w, ButtonFlag(i)) ELSE w,
                    buttons, i + 1)

TriggerValue(buttons, i) == IF Bit(buttons, i) = 1 THEN 255 ELSE 0

\* (mutant: the diagonals decode to their first direction only)
DpadFlagsNoDiagonals(dpad) ==
    CASE dpad \in {0, 1} -> XINPUT_GAMEPAD_DPAD_UP
      [] dpad \in {2, 3} -> XINPUT_GAMEPAD_DPAD_RIGHT
      [] dpad \in {4, 5} -> XINPUT_GAMEPAD_DPAD_DOWN
      [] dpad \in {6, 7} -> XINPUT_GAMEPAD_DPAD_LEFT
      [] OTHER -> 0

\* lines 269-279: the switch on the dpad byte
DpadFlags(dpad) ==
    CASE dpad = 0 -> XINPUT_GAMEPAD_DPAD_UP
      [] dpad = 1 -> Or16(XINPUT_GAMEPAD_DPAD_UP, XINPUT_GAMEPAD_DPAD_RIGHT)
      [] dpad = 2 -> XINPUT_GAMEPAD_DPAD_RIGHT
      [] dpad = 3 -> Or16(XINPUT_GAMEPAD_DPAD_RIGHT, XINPUT_GAMEPAD_DPAD_DOWN)
      [] dpad = 4 -> XINPUT_GAMEPAD_DPAD_DOWN
      [] dpad = 5 -> Or16(XINPUT_GAMEPAD_DPAD_DOWN, XINPUT_GAMEPAD_DPAD_LEFT)
      [] dpad = 6 -> XINPUT_GAMEPAD_DPAD_LEFT
      [] dpad = 7 -> Or16(XINPUT_GAMEPAD_DPAD_LEFT, XINPUT_GAMEPAD_DPAD_UP)
      [] OTHER -> 0

ZeroGamepad ==
    [wButtons |-> 0, bLeftTrigger |-> 0, bRightTrigger |-> 0,
     sThumbLX |-> 0, sThumbLY |-> 0, sThumbRX |-> 0, sThumbRY |-> 0]

\* memset(&controller.state, 0, sizeof(controller.state))
ZeroState == [dwPacketNumber |-> DW(0), Gamepad |-> ZeroGamepad]

\* controller_update_state: the frame is refused
UpdateRefuses(f, id) == f.status # 1 \/ f.id # id

\* (mutant: dwPacketNumber is not incremented)
UpdateFillNoCount(st, f) ==
    [dwPacketNumber |-> st.dwPacketNumber,
     Gamepad |->
        [wButtons |-> Or16(ButtonLoop(st.Gamepad.wButtons, f.buttons, 0),
                           DpadFlags(f.dpad)),
         bLeftTrigger |-> TriggerValue(f.buttons, 10),
         bRightTrigger |-> TriggerValue(f.buttons, 11),
         sThumbLX |-> f.lx,
         sThumbLY |-> Neg16(f.ly),
         sThumbRX |-> f.rx,
         sThumbRY |-> Neg16(f.ry)]]

\* controller_update_state, lines 246-286: the pad after an accepted frame,
\* from the pad st in which wButtons has just been cleared
UpdateFill(st, f) ==
    [dwPacketNumber |-> DWInc(st.dwPacketNumber),
     Gamepad |->
        [wButtons |-> Or16(ButtonLoop(st.Gamepad.wButtons, f.buttons, 0),
                           DpadFlags(f.dpad)),
         bLeftTrigger |-> TriggerValue(f.buttons, 10),
         bRightTrigger |-> TriggerValue(f.buttons, 11),
         sThumbLX |-> f.lx,
         sThumbLY |-> Neg16(f.ly),
         sThumbRX |-> f.rx,
         sThumbRY |-> Neg16(f.ry)]]

\* (mutant: wButtons is not cleared before the button loop)
UpdateClearNothing(st) == st

\* state->Gamepad.wButtons = 0
UpdateClear(st) == [st EXCEPT !.Gamepad.wButtons = 0]

\* controller_check_caps: (1u << (sizeof(field) + 1)) - 1 is 3 for the BYTE
\* fields and 7 for the SHORT fields
FilledCaps ==
    [Type |-> XINPUT_DEVTYPE_GAMEPAD, SubType |-> XINPUT_DEVSUBTYPE_GAMEPAD,
     Gamepad |-> [wButtons |-> 65535,
                  bLeftTrigger |-> (2 ^ (1 + 1)) - 1,
                  bRightTrigger |-> (2 ^ (1 + 1)) - 1,
                  sThumbLX |-> (2 ^ (2 + 1)) - 1,
                  sThumbLY |-> (2 ^ (2 + 1)) - 1,
                  sThumbRX |-> (2 ^ (2 + 1)) - 1,
                  sThumbRY |-> (2 ^ (2 + 1)) - 1]]

\* the statically zero-initialised controller.caps
ZeroCaps == [Type |-> 0, SubType |-> 0, Gamepad |-> ZeroGamepad]

(***************************************************************************)
(* Inputs.                                                                 *)
(***************************************************************************)
Callers == {"c1", "c2"}
Threads == Callers \cup {"worker", "loader"}

Frame(op, status, id, buttons, dpad, lx, ly, rx, ry) ==
    [op |-> op, status |-> status, id |-> id, buttons |-> buttons,
     dpad |-> dpad, lx |-> lx, ly |-> ly, rx |-> rx, ry |-> ry]

NoFrame == Frame(0, 0, 0, 0, 0, 0, 0, 0, 0)

\* GET_GAMEPAD replies: an announcement (id > 0), a disconnection (id = 0),
\* and an id the code gives no meaning to (id < 0)
ReplyIds == {0 - 1, 0, 1, 2}
GetGamepadReplies ==
    {Frame(REQUEST_CODE_GET_GAMEPAD, 0, id, 0, 0, 0, 0, 0, 0) : id \in ReplyIds}

\* wire payloads of GAMEPAD_STATE frames: neutral, and A + d-pad Down with
\* the left stick pushed (wire ly = 30000)
Payloads ==
    {[buttons |-> 0, dpad |-> 8, lx |-> 0, ly |-> 0, rx |-> 0, ry |-> 0],
     [buttons |-> 1, dpad |-> 4, lx |-> 0, ly |-> 30000, rx |-> 0, ry |-> 0]}
StateFrames ==
    {Frame(REQUEST_CODE_GET_GAMEPAD_STATE, st, id, p.buttons, p.dpad,
           p.lx, p.ly, p.rx, p.ry) :
        st \in {0, 1}, id \in {1, 2}, p \in Payloads}

\* a frame with an opcode the worker ignores
OtherFrames == {Frame(REQUEST_CODE_RELEASE_GAMEPAD, 0, 0, 0, 0, 0, 0, 0, 0)}

Frames == GetGamepadReplies \cup StateFrames \cup OtherFrames

(***************************************************************************)
(* State.                                                                  *)
(***************************************************************************)
VARIABLES
    controller,        \* struct xinput_controller, without its lock
    crit,              \* holder of controller.crit, or "free"
    start_event,       \* the readiness event: its handle and its signal
    thread_running,
    server_sock,       \* "invalid", "unbound" (created, not bound) or "bound"
    winsock_loaded,
    xinput_min_index,
    init_once,         \* INIT_ONCE of start_read_thread
    worker,            \* controller_read_thread_proc: pc and locals
    caller,            \* per caller thread: pc, the call and its result
    dll,               \* the loader thread running DllMain
    sent,              \* opcodes of the datagrams sent, in order
    hist               \* history of the run, read by the properties only

vars == <<controller, crit, start_event, thread_running, server_sock,
          winsock_loaded, xinput_min_index, init_once, worker, caller, dll,
          sent, hist>>

\* no pad observed yet
NotSeen == [known |-> FALSE, pkt |-> DW(0)]
\* nothing polled yet: the watched button counts as released
NoKeys == [prev |-> 0, rises |-> 0, falls |-> 0, downs |-> 0, ups |-> 0,
           away |-> FALSE, torn |-> FALSE]

\* the clock not read yet: the tick count at the worker's last
\* GetCurrentTime call, the milliseconds from its first call to its last,
\* those from its first call to the last GET_GAMEPAD request, and whether
\* the controller was connected when a heartbeat was sent
NoTime == [clock |-> DW(0), uptime |-> 0, announced |-> 0, beats |-> {}]

\* no frame delivered and no GET_GAMEPAD reply handled yet
NoOrder == [delivered |-> 0, replies |-> 0, connected |-> FALSE, dropped |-> FALSE]

\* no frame decoded yet
NoDecode == [from |-> ZeroGamepad, frame |-> NoFrame]

NoCall == [op |-> "none", index |-> 0, arg |-> 0]

InitTracking(track) ==
    /\ controller = [caps |-> ZeroCaps, state |-> ZeroState,
                     last_keystroke |-> ZeroGamepad,
                     enabled |-> FALSE, connected |-> FALSE, id |-> 0]
    /\ crit = "free"
    /\ start_event = [handle |-> "none", signaled |-> FALSE]
    /\ thread_running = FALSE
    /\ server_sock = "invalid"
    /\ winsock_loaded = FALSE
    /\ xinput_min_index = XINPUT_MIN_INDEX_INIT
    /\ init_once = "uninit"
    /\ worker = [pc |-> "none", started |-> FALSE, buffer |-> NoFrame,
                 last_time |-> DW(0)]
    /\ caller = [c \in Callers |->
                    [pc |-> "idle", call |-> NoCall, eff |-> 0,
                     ret |-> "NONE", out |-> "none"]]
    /\ dll = "loaded"
    /\ sent = <<>>
    /\ hist = [created |-> 0, events |-> 0, signals |-> 0, frames |-> FALSE,
               bringup_failed |-> FALSE, recv_failed |-> FALSE,
               reserved |-> FALSE, destroys |-> 0,
               polls |-> 0, keys |-> NoKeys, log |-> <<>>,
               start |-> ZeroGamepad,
               least |-> XUSER_MAX_COUNT, below |-> FALSE,
               track |-> track,
               seen |-> NotSeen, gap |-> "none", reset |-> FALSE,
               first_index |-> 0 - 1, first_connected |-> FALSE,
               later |-> FALSE, decoded |-> NoDecode, order |-> NoOrder, time |-> NoTime]

\* the state after the library is mapped, no observer history recorded
Init == InitTracking("none")

\* threads run until the process is terminating
Alive == dll # "loaded" /\ dll # "terminated"

(***************************************************************************)
(* History.  hist records what the properties speak of and the code keeps  *)
(* no trace of: how many workers and events were created, how many times   *)
(* the worker called SetEvent, whether any frame was delivered, whether    *)
(* create_server_socket failed, whether the worker left its loop on a      *)
(* receive error (recv_failed), whether a detach notification said the     *)
(* process is terminating (reserved), how many times controller_destroy    *)
(* was entered (destroys); for the observing caller, the packet            *)
(* number of its last successful get_state (seen), the frames handled      *)
(* since then (gap: "none", only accepted GAMEPAD_STATE frames "acc", or   *)
(* some "other" frame) and whether the pad was zeroed or its counter       *)
(* wrapped since then (reset); the index of the first get_state call that  *)
(* passed the range check (first_index), whether the controller was        *)
(* connected then (first_connected) and whether another such call          *)
(* followed (later); the number of XInputGetKeystroke calls (polls); for   *)
(* the watched button, its bit in the snapshot the last poll saw (prev),   *)
(* how many times that bit rose and fell from one poll to the next and how *)
(* many KEYDOWN and KEYUP events were returned for it, whether a poll      *)
(* found the controller disconnected (away) and whether a poll read the    *)
(* pad in the middle of a frame's handling or read wButtons differently    *)
(* the second time (torn) (keys); last_keystroke when the polls began      *)
(* (start) and the results; the least index that passed the range check   *)
(* of xinput_get_state, XUSER_MAX_COUNT when none did (least), and whether *)
(* the last one that did was at most every one before it (below);          *)
(* of the polls in order (log).  track names the observer history a        *)
(* specification records: "packets" (seen, gap, reset), "index"            *)
(* (first_index, first_connected, later), "keys" (keys), "log" (log) or    *)
(* "none".                                                                 *)
(***************************************************************************)
Observer == "c1"

\* the worker has handled a frame of the given kind
FrameHandled(h, kind, zeroed) ==
    IF ~h.seen.known THEN h
    ELSE [h EXCEPT !.gap = IF kind = "acc" /\ @ \in {"none", "acc"}
                           THEN "acc" ELSE "other",
                   !.reset = @ \/ zeroed]

\* caller c has copied the pad st out
PadObserved(h, c, st) ==
    IF c = Observer /\ h.track = "packets"
    THEN [h EXCEPT !.seen = [known |-> TRUE, pkt |-> st.dwPacketNumber],
                   !.gap = "none", !.reset = FALSE]
    ELSE h

\* recvfrom has delivered a frame to the worker (counted up to two)
FrameDelivered(h) ==
    IF h.track # "order" THEN [h EXCEPT !.frames = TRUE]
    ELSE [h EXCEPT !.frames = TRUE,
                   !.order.delivered = IF @ < 2 THEN @ + 1 ELSE @]

\* controller.connected as it stood when recvfrom delivered the frame
DeliveredWhile(h, connected) ==
    IF h.track # "order" THEN h
    ELSE [h EXCEPT !.order.connected = connected]

\* line 347 has dropped frame f: whether it was received while the
\* controller ctl was disconnected and is one that controller_update_state
\* would have accepted
FrameDropped(h, f, ctl) ==
    IF h.track # "order" THEN h
    ELSE [h EXCEPT !.order.dropped =
                      /\ f.op = REQUEST_CODE_GET_GAMEPAD_STATE
                      /\ ~UpdateRefuses(f, ctl.id)
                      /\ ~h.order.connected]

\* the worker has handled a GET_GAMEPAD reply (counted up to two)
ReplyHandled(h) ==
    IF h.track # "order" THEN h
    ELSE [h EXCEPT !.order.replies = IF @ < 2 THEN @ + 1 ELSE @]

\* controller_update_state has accepted a frame and is about to overwrite
\* the pad st
DecodeBegun(h, st) ==
    IF h.track # "codec" THEN h
    ELSE [h EXCEPT !.decoded = [from |-> st.Gamepad, frame |-> NoFrame]]

\* controller_update_state has decoded frame f into the pad
DecodeDone(h, f) ==
    IF h.track # "codec" THEN h
    ELSE [h EXCEPT !.decoded.frame = f]

\* a get_state call with the given index has passed the range check
IndexPassed(h, index, connected) ==
    IF h.track # "index" THEN h
    ELSE IF h.first_index < 0
         THEN [h EXCEPT !.first_index = index, !.first_connected = connected]
         ELSE [h EXCEPT !.later = TRUE]

\* a get_state call with the given index has passed the range check: is
\* the index at most every index passed before, and the least index so far
IndexCompared(h, index) ==
    IF h.track # "least" THEN h
    ELSE [h EXCEPT !.below = index <= h.least,
                   !.least = IF index < @ THEN index ELSE @]

(***************************************************************************)
(* Transport.                                                              *)
(***************************************************************************)
BringUpOutcomes == {"wsa_fail", "socket_fail", "setsockopt_fail", "bind_fail", "ok"}

\* create_server_socket: the socket and winsock state it leaves, by the
\* step that fails (close_server_socket has run first)
CreateServerSocket(outcome) ==
    CASE outcome = "wsa_fail" -> [sock |-> "invalid", loaded |-> FALSE, ok |-> FALSE]
      [] outcome = "socket_fail" -> [sock |-> "invalid", loaded |-> TRUE, ok |-> FALSE]
      [] outcome = "setsockopt_fail" -> [sock |-> "unbound", loaded |-> TRUE, ok |-> FALSE]
      [] outcome = "bind_fail" -> [sock |-> "unbound", loaded |-> TRUE, ok |-> FALSE]
      [] OTHER -> [sock |-> "bound", loaded |-> TRUE, ok |-> TRUE]

\* get_gamepad_request, lines 161-163: the bytes of the datagram that the
\* function sets (the rest of the 64 is left as the stack had it)
GetGamepadRequest == <<REQUEST_CODE_GET_GAMEPAD, 1, 1>>

\* release_gamepad_request, line 176
ReleaseGamepadRequest == <<REQUEST_CODE_RELEASE_GAMEPAD>>

\* sendto(server_sock, ...): a datagram leaves unless the socket is invalid
SendTo(log, sock, datagram) ==
    IF sock = "invalid" THEN log ELSE Append(log, datagram)

\* SetEvent(start_event): signals the event while its handle is open
SetEvent(ev) == IF ev.handle = "open" THEN [ev EXCEPT !.signaled = TRUE] ELSE ev

(***************************************************************************)
(* The reader worker, controller_read_thread_proc.                         *)
(***************************************************************************)
\* lines 297-301: where the worker goes on after the bring-up: a failed
\* bring-up returns at once
\* (mutant: the return after SetEvent is missing)
BringUpNextNoReturn(ok) == "w_announce"

BringUpNext(ok) == IF ok THEN "w_announce" ELSE "w_failed"

\* lines 296-301: bring the transport up; on failure signal and return
WorkerBringUp ==
    /\ Alive /\ worker.pc = "w_start"
    /\ \E outcome \in BringUpOutcomes :
         LET r == CreateServerSocket(outcome) IN
         IF server_sock = "invalid"
         THEN /\ server_sock' = r.sock
              /\ winsock_loaded' = r.loaded
              /\ worker' = [worker EXCEPT !.pc = BringUpNext(r.ok)]
              /\ IF r.ok
                 THEN UNCHANGED <<start_event, hist>>
                 ELSE /\ start_event' = SetEvent(start_event)
                      /\ hist' = [hist EXCEPT !.signals = @ + 1,
                                              !.bringup_failed = TRUE]
         ELSE /\ worker' = [worker EXCEPT !.pc = "w_announce"]
              /\ UNCHANGED <<server_sock, winsock_loaded, start_event, hist>>
    /\ UNCHANGED <<controller, crit, thread_running, xinput_min_index,
                   init_once, caller, dll, sent>>

\* lines 303-305: the initial GET_GAMEPAD announcement
WorkerAnnounce ==
    /\ Alive /\ worker.pc = "w_announce"
    /\ sent' = SendTo(sent, server_sock, GetGamepadRequest)
    /\ worker' = [worker EXCEPT !.pc = "w_loop"]
    /\ UNCHANGED <<controller, crit, start_event, thread_running, server_sock,
                   winsock_loaded, xinput_min_index, init_once, caller, dll, hist>>

\* (mutant: the loop is while (TRUE))
LoopNextForever(running) == "w_recv"

\* line 306: while (thread_running)
LoopNext(running) == IF running THEN "w_recv" ELSE "w_done"

WorkerLoop ==
    /\ Alive /\ worker.pc = "w_loop"
    /\ worker' = [worker EXCEPT !.pc = LoopNext(thread_running)]
    /\ UNCHANGED <<controller, crit, start_event, thread_running, server_sock,
                   winsock_loaded, xinput_min_index, init_once, caller, dll,
                   sent, hist>>

\* an accepted frame may still be counted below the model's packet bound,
\* or at the 32-bit maximum, where the counter wraps
PacketRoom ==
    \/ DWLess(controller.state.dwPacketNumber, DW(MaxPackets))
    \/ controller.state.dwPacketNumber = DWMax

\* lines 308-311: recvfrom fails with an error other than WSAEWOULDBLOCK
\* (always so on a closed socket)
WorkerRecvFatal ==
    /\ Alive /\ worker.pc = "w_recv"
    /\ worker' = [worker EXCEPT !.pc = "w_done"]
    /\ hist' = [hist EXCEPT !.recv_failed = TRUE]
    /\ UNCHANGED <<controller, crit, start_event, thread_running, server_sock,
                   winsock_loaded, xinput_min_index, init_once, caller, dll,
                   sent>>

\* lines 313-320: nothing to receive; the heartbeat when 2000 ms have passed
WorkerRecvWouldBlock(limit) ==
    /\ Alive /\ worker.pc = "w_recv" /\ server_sock # "invalid"
    /\ \E due \in BOOLEAN :
         sent' = IF due /\ Len(sent) < limit
                 THEN SendTo(sent, server_sock, GetGamepadRequest)
                 ELSE sent
    /\ worker' = [worker EXCEPT !.pc = "w_loop"]
    /\ UNCHANGED <<controller, crit, start_event, thread_running, server_sock,
                   winsock_loaded, xinput_min_index, init_once, caller, dll, hist>>

\* GetCurrentTime() at line 305: the tick count when the worker starts its
\* loop: zero, just below a limb carry, and within one heartbeat of the
\* 32-bit wrap
StartTicks == {DW(0), [hi |-> 0, lo |-> LimbModulus - 1500],
               [hi |-> LimbModulus - 1, lo |-> LimbModulus - 1500]}

\* the milliseconds between two GetCurrentTime calls of the worker
TickSteps == {999, 1000, 2000}

\* lines 303-305 with the clock: the initial GET_GAMEPAD request, then
\* last_time = GetCurrentTime()
WorkerAnnounceAt ==
    /\ Alive /\ worker.pc = "w_announce"
    /\ sent' = SendTo(sent, server_sock, GetGamepadRequest)
    /\ \E t \in StartTicks :
         /\ worker' = [worker EXCEPT !.pc = "w_loop", !.last_time = t]
         /\ hist' = [hist EXCEPT !.time.clock = t]
    /\ UNCHANGED <<controller, crit, start_event, thread_running, server_sock,
                   winsock_loaded, xinput_min_index, init_once, caller, dll>>

\* (mutant: the deadline last_time + 2000 is compared with the clock)
HeartbeatDueByDeadline(curr_time, last_time) ==
    DWLeq(DWAdd(last_time, 2000), curr_time)

\* line 314: (curr_time - last_time) >= 2000, on DWORDs
HeartbeatDue(curr_time, last_time) ==
    LET diff == DWSub(curr_time, last_time) IN
    diff.hi > 0 \/ diff.lo >= 2000

\* lines 309-320 with the clock: nothing to receive; curr_time is read and
\* the request is sent again when 2000 ms have passed since last_time
WorkerRecvWouldBlockAt(limit) ==
    /\ Alive /\ worker.pc = "w_recv" /\ server_sock # "invalid"
    /\ \E d \in TickSteps :
         LET curr_time == DWAdd(hist.time.clock, d)
             due == HeartbeatDue(curr_time, worker.last_time)
             t == [hist.time EXCEPT !.clock = curr_time, !.uptime = @ + d]
         IN
         /\ due => Len(sent) < limit
         /\ sent' = IF due
                     THEN SendTo(sent, server_sock, GetGamepadRequest)
                     ELSE sent
         /\ worker' = [worker EXCEPT
                          !.pc = "w_loop",
                          !.last_time = IF due THEN curr_time ELSE @]
         /\ hist' = [hist EXCEPT
                        !.time = IF due
                                 THEN [t EXCEPT
                                         !.announced = t.uptime,
                                         !.beats = @ \cup {controller.connected}]
                                 ELSE t]
    /\ UNCHANGED <<controller, crit, start_event, thread_running, server_sock,
                   winsock_loaded, xinput_min_index, init_once, caller, dll>>

\* line 308: a frame arrives
WorkerRecvFrame(frames) ==
    /\ Alive /\ worker.pc = "w_recv" /\ server_sock = "bound"
    /\ \E f \in frames :
         /\ (f.op = REQUEST_CODE_GET_GAMEPAD_STATE
               /\ ~UpdateRefuses(f, controller.id)) => PacketRoom
         /\ worker' = [worker EXCEPT !.pc = "w_dispatch", !.buffer = f]
    /\ hist' = DeliveredWhile(FrameDelivered(hist), controller.connected)
    /\ UNCHANGED <<controller, crit, start_event, thread_running, server_sock,
                   winsock_loaded, xinput_min_index, init_once, caller, dll, sent>>

\* (mutant: controller_init does not call controller_check_caps)
ControllerInitNoCaps(ctl) ==
    [ctl EXCEPT !.state = ZeroState, !.connected = TRUE, !.enabled = TRUE]

\* controller_init
ControllerInit(ctl) ==
    [ctl EXCEPT !.state = ZeroState, !.caps = FilledCaps,
                !.connected = TRUE, !.enabled = TRUE]

\* (mutant: every announcement initialises the controller, connected or not)
ApplyGetGamepadAlwaysInit(ctl, gamepad_id) ==
    IF gamepad_id > 0
    THEN ControllerInit([ctl EXCEPT !.id = gamepad_id])
    ELSE IF gamepad_id = 0
         THEN [ctl EXCEPT !.id = 0, !.connected = FALSE]
         ELSE ctl

\* lines 328-339: the GET_GAMEPAD reply applied to the snapshot
ApplyGetGamepad(ctl, gamepad_id) ==
    IF gamepad_id > 0
    THEN IF ctl.connected
         THEN [ctl EXCEPT !.id = gamepad_id]
         ELSE ControllerInit([ctl EXCEPT !.id = gamepad_id])
    ELSE IF gamepad_id = 0
         THEN [ctl EXCEPT !.id = 0, !.connected = FALSE]
         ELSE ctl

\* (mutant: every GET_GAMEPAD reply signals the event)
GateSignalsAlways(started) == TRUE

\* line 341: if (!started)
GateSignals(started) == ~started

\* lines 323-346: a GET_GAMEPAD reply, under the guard, then the readiness
\* signal on the first one
WorkerGetGamepad ==
    /\ Alive /\ worker.pc = "w_dispatch"
    /\ worker.buffer.op = REQUEST_CODE_GET_GAMEPAD
    /\ crit = "free"
    /\ controller' = ApplyGetGamepad(controller, worker.buffer.id)
    /\ LET h == ReplyHandled(
                    FrameHandled(hist, "other",
                                 controller'.connected /\ ~controller.connected)) IN
       IF GateSignals(worker.started)
       THEN /\ start_event' = SetEvent(start_event)
            /\ hist' = [h EXCEPT !.signals = @ + 1]
       ELSE /\ start_event' = start_event
            /\ hist' = h
    /\ worker' = [worker EXCEPT !.pc = "w_loop", !.started = TRUE,
                                 !.buffer = NoFrame]
    /\ UNCHANGED <<crit, thread_running, server_sock, winsock_loaded,
                   xinput_min_index, init_once, caller, dll, sent>>

\* (mutant: every GAMEPAD_STATE frame is handed on, connected or not)
DispatchesAlways(f, connected) == f.op = REQUEST_CODE_GET_GAMEPAD_STATE

\* line 347: buffer[0] == REQUEST_CODE_GET_GAMEPAD_STATE && controller.connected
Dispatches(f, connected) ==
    f.op = REQUEST_CODE_GET_GAMEPAD_STATE /\ connected

\* line 347: a GAMEPAD_STATE frame is handed to controller_update_state
\* when controller.connected reads true (read outside the guard); any
\* other frame is dropped
WorkerDispatchState ==
    /\ Alive /\ worker.pc = "w_dispatch"
    /\ worker.buffer.op # REQUEST_CODE_GET_GAMEPAD
    /\ worker' = IF Dispatches(worker.buffer, controller.connected)
                  THEN [worker EXCEPT !.pc = "w_update"]
                  ELSE [worker EXCEPT !.pc = "w_loop", !.buffer = NoFrame]
    /\ hist' = IF worker'.pc = "w_loop"
               THEN FrameDropped(FrameHandled(hist, "other", FALSE),
                                 worker.buffer, controller)
               ELSE hist
    /\ UNCHANGED <<controller, crit, start_event, thread_running, server_sock,
                   winsock_loaded, xinput_min_index, init_once, caller, dll,
                   sent>>

\* controller_update_state, lines 232-233
\* (mutant: the pad is left as it was)
RefuseKeepsPad(ctl) == [ctl EXCEPT !.connected = FALSE]

Refuse(ctl) == [ctl EXCEPT !.connected = FALSE, !.state = ZeroState]

\* controller_update_state, lines 227-236: the frame is refused
WorkerUpdateRefuse ==
    /\ Alive /\ worker.pc = "w_update" /\ crit = "free"
    /\ UpdateRefuses(worker.buffer, controller.id)
    /\ controller' = Refuse(controller)
    /\ worker' = [worker EXCEPT !.pc = "w_loop", !.buffer = NoFrame]
    /\ hist' = FrameHandled(hist, "other", TRUE)
    /\ UNCHANGED <<crit, start_event, thread_running, server_sock,
                   winsock_loaded, xinput_min_index, init_once, caller, dll,
                   sent>>

\* (mutant: controller_update_state does not take the guard)
WorkerUpdateEnterUnguarded ==
    /\ Alive /\ worker.pc = "w_update"
    /\ ~UpdateRefuses(worker.buffer, controller.id)
    /\ controller' = [controller EXCEPT !.state = UpdateClear(@)]
    /\ worker' = [worker EXCEPT !.pc = "w_fill"]
    /\ UNCHANGED <<crit, start_event, thread_running, server_sock,
                   winsock_loaded, xinput_min_index, init_once, caller, dll,
                   sent, hist>>

\* controller_update_state, lines 227-246: the frame is accepted and
\* wButtons is cleared; the guard stays held
WorkerUpdateEnter ==
    /\ Alive /\ worker.pc = "w_update" /\ crit = "free"
    /\ ~UpdateRefuses(worker.buffer, controller.id)
    /\ crit' = "worker"
    /\ controller' = [controller EXCEPT !.state = UpdateClear(@)]
    /\ worker' = [worker EXCEPT !.pc = "w_fill"]
    /\ hist' = DecodeBegun(hist, controller.state)
    /\ UNCHANGED <<start_event, thread_running, server_sock, winsock_loaded,
                   xinput_min_index, init_once, caller, dll, sent>>

\* controller_update_state, lines 247-287: the pad is filled, the packet
\* number incremented and the guard released
WorkerUpdateFill ==
    /\ Alive /\ worker.pc = "w_fill" /\ crit = "worker"
    /\ controller' = [controller EXCEPT !.state = UpdateFill(@, worker.buffer)]
    /\ crit' = "free"
    /\ worker' = [worker EXCEPT !.pc = "w_loop", !.buffer = NoFrame]
    /\ hist' = DecodeDone(FrameHandled(hist, "acc",
                                       controller.state.dwPacketNumber = DWMax),
                          worker.buffer)
    /\ UNCHANGED <<start_event, thread_running, server_sock, winsock_loaded,
                   xinput_min_index, init_once, caller, dll, sent>>

\* lines 306-351 iterated: the provider repeats one accepted frame until
\* the packet number stands at the 32-bit maximum (as many iterations of
\* the loop as that takes, each receiving and applying the frame, with no
\* other thread running in between)
WorkerFrameBurst(frames) ==
    /\ Alive /\ worker.pc = "w_recv" /\ server_sock = "bound"
    /\ thread_running /\ controller.connected /\ crit = "free"
    /\ controller.state.dwPacketNumber # DWMax
    /\ \E f \in frames :
         /\ f.op = REQUEST_CODE_GET_GAMEPAD_STATE
         /\ ~UpdateRefuses(f, controller.id)
         /\ controller' = [controller EXCEPT !.state =
                [UpdateFill(UpdateClear(@), f) EXCEPT !.dwPacketNumber = DWMax]]
         /\ worker' = [worker EXCEPT !.pc = "w_loop"]
    /\ hist' = [FrameHandled(hist, "acc", FALSE) EXCEPT !.frames = TRUE]
    /\ UNCHANGED <<crit, start_event, thread_running, server_sock,
                   winsock_loaded, xinput_min_index, init_once, caller, dll, sent>>

(***************************************************************************)
(* DllMain and controller_destroy.                                         *)
(***************************************************************************)
\* DLL_PROCESS_ATTACH
DllAttach ==
    /\ dll = "loaded"
    /\ dll' = "attached"
    /\ UNCHANGED <<controller, crit, start_event, thread_running, server_sock,
                   winsock_loaded, xinput_min_index, init_once, worker, caller,
                   sent, hist>>

\* (mutant: controller_destroy runs on every detach)
DetachNextAlways(reserved) == "d_enter"

\* lines 399-400: if (reserved) break; controller_destroy();
DetachNext(reserved) == IF reserved THEN "terminated" ELSE "d_enter"

\* DLL_PROCESS_DETACH: with reserved set the process is terminating and
\* nothing is cleaned up; otherwise controller_destroy runs
DllDetach ==
    /\ dll = "attached"
    /\ \E reserved \in BOOLEAN :
         /\ dll' = DetachNext(reserved)
         /\ hist' = [hist EXCEPT !.reserved = reserved]
    /\ UNCHANGED <<controller, crit, start_event, thread_running, server_sock,
                   winsock_loaded, xinput_min_index, init_once, worker, caller,
                   sent>>

\* controller_destroy, lines 200-201
DestroyEnter ==
    /\ dll = "d_enter" /\ crit = "free"
    /\ crit' = "loader"
    /\ thread_running' = FALSE
    /\ dll' = "d_release"
    /\ hist' = [hist EXCEPT !.destroys = @ + 1]
    /\ UNCHANGED <<controller, start_event, server_sock, winsock_loaded,
                   xinput_min_index, init_once, worker, caller, sent>>

\* controller_destroy, line 202
DestroyRelease ==
    /\ dll = "d_release"
    /\ sent' = SendTo(sent, server_sock, ReleaseGamepadRequest)
    /\ dll' = "d_flags"
    /\ UNCHANGED <<controller, crit, start_event, thread_running, server_sock,
                   winsock_loaded, xinput_min_index, init_once, worker, caller, hist>>

\* controller_destroy, lines 203-206
DestroyFlags ==
    /\ dll = "d_flags"
    /\ xinput_min_index' = XINPUT_MIN_INDEX_INIT
    /\ controller' = [controller EXCEPT !.enabled = FALSE, !.connected = FALSE]
    /\ dll' = "d_close"
    /\ UNCHANGED <<crit, start_event, thread_running, server_sock,
                   winsock_loaded, init_once, worker, caller, sent, hist>>

\* controller_destroy, lines 208-209: close_server_socket and the guard
\* released
DestroyClose ==
    /\ dll = "d_close"
    /\ server_sock' = "invalid"
    /\ winsock_loaded' = FALSE
    /\ crit' = "free"
    /\ dll' = "d_done"
    /\ UNCHANGED <<controller, start_event, thread_running, xinput_min_index,
                   init_once, worker, caller, sent, hist>>

(***************************************************************************)
(* The API entry points.  A call is [op, index, arg]: arg is the state     *)
(* pointer of the get_state calls (0 for NULL), the flags of the           *)
(* capabilities calls and the BOOL of XInputEnable.                        *)
(***************************************************************************)
GetStateOps == {"XInputGetState", "XInputGetStateEx"}
CapsOps == {"XInputGetCapabilities", "XInputGetCapabilitiesEx"}

\* the indices callers pass: the four valid ones and one past them
CallIndices == 0 .. XUSER_MAX_COUNT

Calls ==
    [op : GetStateOps, index : CallIndices, arg : {0, 1}]
    \cup [op : {"XInputSetState"}, index : CallIndices, arg : {0}]
    \cup [op : CapsOps, index : CallIndices, arg : {0, XINPUT_FLAG_GAMEPAD}]
    \cup [op : {"XInputEnable"}, index : {0}, arg : {0, 1}]

\* the call of caller c returns r, with output o
Return(c, r, o) ==
    caller' = [caller EXCEPT ![c].pc = "idle", ![c].ret = r, ![c].out = o]

Goto(c, label) == caller' = [caller EXCEPT ![c].pc = label]

\* where a call continues once start_read_thread has returned
AfterStart(op) ==
    CASE op \in GetStateOps -> "gs_idx"
      [] op = "XInputEnable" -> "en_read"
      [] OTHER -> "chk"

\* (mutant: a disabled controller counts as disconnected)
IsConnectedIfEnabled(ctl, index) == index = 0 /\ ctl.connected /\ ctl.enabled

\* controller_is_connected: index == 0 && controller.connected
IsConnected(ctl, index) == index = 0 /\ ctl.connected

\* controller_is_connected, evaluated under the guard
ControllerIsConnected(index) == IsConnected(controller, index)

\* a caller enters an entry point; xinput_get_state returns at once on a
\* NULL state pointer (line 437)
BeginCall(c, calls) ==
    /\ Alive /\ caller[c].pc = "idle"
    /\ \E call \in calls :
         caller' = [caller EXCEPT ![c] =
            IF call.op \in GetStateOps /\ call.arg = 0
            THEN [pc |-> "idle", call |-> call, eff |-> call.index,
                  ret |-> "BAD_ARGUMENTS", out |-> "none"]
            ELSE [pc |-> "start", call |-> call, eff |-> call.index,
                  ret |-> "NONE", out |-> "none"]]
    /\ UNCHANGED <<controller, crit, start_event, thread_running, server_sock,
                   winsock_loaded, xinput_min_index, init_once, worker, dll,
                   sent, hist>>

\* InitOnceExecuteOnce: the gate lets a caller through once the initialiser
\* has completed
OnceDone(once) == once = "done"
\* (mutant: the gate also opens while an initialiser is still running)
OnceOpenWhilePending(once) == once # "done"

\* InitOnceExecuteOnce: the gate is open to one initialiser
OnceOpen(once) == once = "uninit"

\* start_read_thread when the worker has been started already
StartGatePass(c) ==
    /\ Alive /\ caller[c].pc = "start"
    /\ OnceDone(init_once)
    /\ Goto(c, AfterStart(caller[c].call.op))
    /\ UNCHANGED <<controller, crit, start_event, thread_running, server_sock,
                   winsock_loaded, xinput_min_index, init_once, worker, dll,
                   sent, hist>>

\* start_read_thread_once, lines 360-367: the first caller through the gate
\* sets thread_running and creates the event and the worker
StartGateInit(c) ==
    /\ Alive /\ caller[c].pc = "start"
    /\ OnceOpen(init_once)
    /\ init_once' = "pending"
    /\ thread_running' = TRUE
    /\ start_event' = [handle |-> "open", signaled |-> FALSE]
    /\ worker' = [pc |-> "w_start", started |-> FALSE, buffer |-> NoFrame,
                 last_time |-> DW(0)]
    /\ hist' = [hist EXCEPT !.created = @ + 1, !.events = @ + 1]
    /\ Goto(c, "wait")
    /\ UNCHANGED <<controller, crit, server_sock, winsock_loaded,
                   xinput_min_index, dll, sent>>

\* (mutant: the wait has no timeout)
WaitReturnsOnSignal(ev, finite) == ev.signaled

\* WaitForSingleObject(start_event, timeout) returns: the event is signalled,
\* or the timeout is finite and passes
WaitReturns(ev, finite) == ev.signaled \/ finite

\* start_read_thread_once, lines 369-372: the wait ends, the handle is
\* closed and the gate completes
StartWaitDone(c) ==
    /\ Alive /\ caller[c].pc = "wait"
    /\ WaitReturns(start_event, TRUE)
    /\ start_event' = [handle |-> "closed", signaled |-> FALSE]
    /\ init_once' = "done"
    /\ Goto(c, AfterStart(caller[c].call.op))
    /\ UNCHANGED <<controller, crit, thread_running, server_sock,
                   winsock_loaded, xinput_min_index, worker, dll, sent, hist>>

\* xinput_get_state, lines 441-442: the range check and the comparison
\* with xinput_min_index
GetStateIndex(c) ==
    /\ Alive /\ caller[c].pc = "gs_idx"
    /\ IF caller[c].call.index >= XUSER_MAX_COUNT
       THEN Return(c, "BAD_ARGUMENTS", "none")
       ELSE Goto(c, IF caller[c].call.index < xinput_min_index
                    THEN "gs_setmin" ELSE "gs_cmp")
    /\ hist' = IF caller[c].call.index >= XUSER_MAX_COUNT
               THEN hist
               ELSE IndexCompared(IndexPassed(hist, caller[c].call.index,
                                              controller.connected),
                                  caller[c].call.index)
    /\ UNCHANGED <<controller, crit, start_event, thread_running, server_sock,
                   winsock_loaded, xinput_min_index, init_once, worker, dll,
                   sent>>

\* xinput_get_state, line 442: xinput_min_index = index
GetStateSetMin(c) ==
    /\ Alive /\ caller[c].pc = "gs_setmin"
    /\ xinput_min_index' = caller[c].call.index
    /\ Goto(c, "gs_cmp")
    /\ UNCHANGED <<controller, crit, start_event, thread_running, server_sock,
                   winsock_loaded, init_once, worker, dll, sent, hist>>

\* (mutant: every valid index is served as controller 0)
RemapIndexAlways(index, min_index) == 0

\* (mutant: the index is never remapped)
RemapIndexNever(index, min_index) == index

\* xinput_get_state, line 443: the index the call goes on with
RemapIndex(index, min_index) == IF index = min_index THEN 0 ELSE index

GetStateRemap(c) ==
    /\ Alive /\ caller[c].pc = "gs_cmp"
    /\ caller' = [caller EXCEPT
          ![c].eff = RemapIndex(caller[c].call.index, xinput_min_index),
          ![c].pc = "gs_conn"]
    /\ UNCHANGED <<controller, crit, start_event, thread_running, server_sock,
                   winsock_loaded, xinput_min_index, init_once, worker, dll,
                   sent, hist>>

\* xinput_get_state, line 444
GetStateConnected(c) ==
    /\ Alive /\ caller[c].pc = "gs_conn" /\ crit = "free"
    /\ IF ControllerIsConnected(caller[c].eff)
       THEN Goto(c, "gs_copy")
       ELSE Return(c, "DEVICE_NOT_CONNECTED", "none")
    /\ UNCHANGED <<controller, crit, start_event, thread_running, server_sock,
                   winsock_loaded, xinput_min_index, init_once, worker, dll,
                   sent, hist>>

\* XInputGetState, line 462: the GUIDE bit is stripped
StripGuide(st) ==
    [st EXCEPT !.Gamepad.wButtons = AndNot16(@, XINPUT_GAMEPAD_GUIDE)]

\* xinput_get_state, lines 446-449, and the wrapper's return
GetStateCopy(c) ==
    /\ Alive /\ caller[c].pc = "gs_copy" /\ crit = "free"
    /\ Return(c, "SUCCESS",
              IF caller[c].call.op = "XInputGetState"
              THEN StripGuide(controller.state) ELSE controller.state)
    /\ hist' = PadObserved(hist, c, controller.state)
    /\ UNCHANGED <<controller, crit, start_event, thread_running, server_sock,
                   winsock_loaded, xinput_min_index, init_once, worker, dll,
                   sent>>

\* XInputSetState, lines 427-430, and XInputGetCapabilitiesEx, lines 706-707
CheckIndex(c) ==
    /\ Alive /\ caller[c].pc = "chk"
    /\ IF caller[c].call.index >= XUSER_MAX_COUNT
       THEN Return(c, "BAD_ARGUMENTS", "none")
       ELSE /\ crit = "free"
            /\ IF ~ControllerIsConnected(caller[c].call.index)
               THEN Return(c, "DEVICE_NOT_CONNECTED", "none")
               ELSE IF caller[c].call.op = "XInputSetState"
                    THEN Return(c, "SUCCESS", "none")
                    ELSE Goto(c, "caps_body")
    /\ UNCHANGED <<controller, crit, start_event, thread_running, server_sock,
                   winsock_loaded, xinput_min_index, init_once, worker, dll,
                   sent, hist>>

\* XInputGetCapabilitiesEx, lines 716-717, and XInputGetCapabilities' projection
CapsOut(op, caps) ==
    IF op = "XInputGetCapabilitiesEx"
    THEN [Capabilities |-> caps, VendorId |-> 1118, ProductId |-> 673]
    ELSE caps

\* XInputGetCapabilitiesEx, lines 709-721: the early return leaves the
\* guard held
GetCapabilitiesBody(c) ==
    /\ Alive /\ caller[c].pc = "caps_body" /\ crit = "free"
    /\ IF caller[c].call.arg = XINPUT_FLAG_GAMEPAD
          /\ controller.caps.SubType # XINPUT_DEVSUBTYPE_GAMEPAD
       THEN /\ crit' = c
            /\ Return(c, "DEVICE_NOT_CONNECTED", "none")
       ELSE /\ crit' = crit
            /\ Return(c, "SUCCESS", CapsOut(caller[c].call.op, controller.caps))
    /\ UNCHANGED <<controller, start_event, thread_running, server_sock,
                   winsock_loaded, xinput_min_index, init_once, worker, dll,
                   sent, hist>>

\* XInputEnable, line 417: controller.connected read outside the guard
EnableRead(c) ==
    /\ Alive /\ caller[c].pc = "en_read"
    /\ IF controller.connected
       THEN Goto(c, "en_write")
       ELSE Return(c, "VOID", "none")
    /\ UNCHANGED <<controller, crit, start_event, thread_running, server_sock,
                   winsock_loaded, xinput_min_index, init_once, worker, dll,
                   sent, hist>>

\* XInputEnable, line 418: controller.enabled written outside the guard
EnableWrite(c) ==
    /\ Alive /\ caller[c].pc = "en_write"
    /\ controller' = [controller EXCEPT !.enabled = (caller[c].call.arg # 0)]
    /\ Return(c, "VOID", "none")
    /\ UNCHANGED <<crit, start_event, thread_running, server_sock,
                   winsock_loaded, xinput_min_index, init_once, worker, dll,
                   sent, hist>>

(***************************************************************************)
(* The keystroke synthesizer, check_for_keystroke.  A virtual key is the   *)
(* record of its base name and the offset added to it (the header's        *)
(* numbers are not in the source); NoVk stands for the value 0 of cur_vk   *)
(* and last_vk.                                                            *)
(***************************************************************************)
\* (mutant: the thresholds are inclusive)
joystick_state_inclusive(value) ==
    IF value >= 20000 THEN JS_STATE_HIGH
    ELSE IF value <= 0 - 20000 THEN JS_STATE_LOW
    ELSE JS_STATE_OFF

joystick_state(value) ==
    IF value > 20000 THEN JS_STATE_HIGH
    ELSE IF value < 0 - 20000 THEN JS_STATE_LOW
    ELSE JS_STATE_OFF

js_vk_offs(x, y) ==
    IF y = JS_STATE_OFF
    THEN IF x = JS_STATE_LOW THEN 3 ELSE 2
    ELSE IF y = JS_STATE_HIGH
         THEN IF x = JS_STATE_OFF THEN 0
              ELSE IF x = JS_STATE_LOW THEN 4 ELSE 5
         ELSE IF x = JS_STATE_OFF THEN 1
              ELSE IF x = JS_STATE_LOW THEN 7 ELSE 6

Vk(base, offs) == [base |-> base, offs |-> offs]
NoVk == Vk("none", 0)
NoEvent == [VirtualKey |-> NoVk, Flags |-> "NONE"]
Keystroke(vk, flags) == [VirtualKey |-> vk, Flags |-> flags]

\* lines 513-516 and 518-521: base_vk + js_vk_offs(x_st, y_st), or 0
StickVk(base_vk, x, y) ==
    IF joystick_state(x) # JS_STATE_OFF \/ joystick_state(y) # JS_STATE_OFF
    THEN Vk(base_vk, js_vk_offs(joystick_state(x), joystick_state(y)))
    ELSE NoVk

\* (mutant: a changed direction is reported by its KEYDOWN at once)
check_joystick_keystroke_no_keyup(cur_x, cur_y, last_x, last_y, base_vk) ==
    LET cur_vk == StickVk(base_vk, cur_x, cur_y)
        last_vk == StickVk(base_vk, last_x, last_y) IN
    IF cur_vk # last_vk /\ cur_vk # NoVk
    THEN [ret |-> "SUCCESS", event |-> Keystroke(cur_vk, "KEYDOWN"),
          last_x |-> cur_x, last_y |-> cur_y]
    ELSE IF cur_vk # last_vk
         THEN [ret |-> "SUCCESS", event |-> Keystroke(last_vk, "KEYUP"),
               last_x |-> 0, last_y |-> 0]
         ELSE [ret |-> "EMPTY", event |-> NoEvent,
               last_x |-> cur_x, last_y |-> cur_y]

check_joystick_keystroke(cur_x, cur_y, last_x, last_y, base_vk) ==
    LET cur_vk == StickVk(base_vk, cur_x, cur_y)
        last_vk == StickVk(base_vk, last_x, last_y) IN
    IF cur_vk # last_vk
    THEN IF last_vk # NoVk
         THEN [ret |-> "SUCCESS", event |-> Keystroke(last_vk, "KEYUP"),
               last_x |-> 0, last_y |-> 0]
         ELSE [ret |-> "SUCCESS", event |-> Keystroke(cur_vk, "KEYDOWN"),
               last_x |-> cur_x, last_y |-> cur_y]
    ELSE [ret |-> "EMPTY", event |-> NoEvent,
          last_x |-> cur_x, last_y |-> cur_y]

trigger_is_on(value) == value > 30

\* the table buttons[] of check_for_keystroke
buttons ==
    << [mask |-> XINPUT_GAMEPAD_DPAD_UP, vk |-> "VK_PAD_DPAD_UP"],
       [mask |-> XINPUT_GAMEPAD_DPAD_DOWN, vk |-> "VK_PAD_DPAD_DOWN"],
       [mask |-> XINPUT_GAMEPAD_DPAD_LEFT, vk |-> "VK_PAD_DPAD_LEFT"],
       [mask |-> XINPUT_GAMEPAD_DPAD_RIGHT, vk |-> "VK_PAD_DPAD_RIGHT"],
       [mask |-> XINPUT_GAMEPAD_START, vk |-> "VK_PAD_START"],
       [mask |-> XINPUT_GAMEPAD_BACK, vk |-> "VK_PAD_BACK"],
       [mask |-> XINPUT_GAMEPAD_LEFT_THUMB, vk |-> "VK_PAD_LTHUMB_PRESS"],
       [mask |-> XINPUT_GAMEPAD_RIGHT_THUMB, vk |-> "VK_PAD_RTHUMB_PRESS"],
       [mask |-> XINPUT_GAMEPAD_LEFT_SHOULDER, vk |-> "VK_PAD_LSHOULDER"],
       [mask |-> XINPUT_GAMEPAD_RIGHT_SHOULDER, vk |-> "VK_PAD_RSHOULDER"],
       [mask |-> XINPUT_GAMEPAD_A, vk |-> "VK_PAD_A"],
       [mask |-> XINPUT_GAMEPAD_B, vk |-> "VK_PAD_B"],
       [mask |-> XINPUT_GAMEPAD_X, vk |-> "VK_PAD_X"],
       [mask |-> XINPUT_GAMEPAD_Y, vk |-> "VK_PAD_Y"] >>

\* w & mask, as 0 or 1, for a mask of one bit
Masked(w, mask) == (w \div mask) % 2

\* (mutant: the last entry whose bit differs is reported)
RECURSIVE FirstChangedLast(_, _, _)
FirstChangedLast(cur_w, last_w, i) ==
    IF i > Len(buttons) THEN 0
    ELSE LET rest == FirstChangedLast(cur_w, last_w, i + 1) IN
         IF rest > 0 THEN rest
         ELSE IF Masked(cur_w, buttons[i].mask) # Masked(last_w, buttons[i].mask)
              THEN i ELSE 0

\* the loop of lines 594-616 from entry i on: the first entry whose bit
\* differs between the pad and last_keystroke, or 0
RECURSIVE FirstChanged(_, _, _)
FirstChanged(cur_w, last_w, i) ==
    IF i > Len(buttons) THEN 0
    ELSE IF Masked(cur_w, buttons[i].mask) # Masked(last_w, buttons[i].mask)
         THEN i
         ELSE FirstChanged(cur_w, last_w, i + 1)

\* (mutant: last_keystroke.wButtons is left as it was)
ButtonEventKeepsLast(cur_w, last_w, i) ==
    [event |-> Keystroke(Vk(buttons[i].vk, 0),
                         IF Masked(cur_w, buttons[i].mask) = 1
                         THEN "KEYDOWN" ELSE "KEYUP"),
     wButtons |-> last_w]

\* lines 600-609: the event of entry i and last_keystroke.wButtons after it,
\* from the wButtons read again at line 600
ButtonEvent(cur_w, last_w, i) ==
    IF Masked(cur_w, buttons[i].mask) = 1
    THEN [event |-> Keystroke(Vk(buttons[i].vk, 0), "KEYDOWN"),
          wButtons |-> Or16(last_w, buttons[i].mask)]
    ELSE [event |-> Keystroke(Vk(buttons[i].vk, 0), "KEYUP"),
          wButtons |-> AndNot16(last_w, buttons[i].mask)]

\* lines 618-656: the triggers and the sticks, when no button differs
AfterButtons(cur, last) ==
    IF trigger_is_on(cur.bLeftTrigger) # trigger_is_on(last.bLeftTrigger)
    THEN [ret |-> "SUCCESS",
          event |-> Keystroke(Vk("VK_PAD_LTRIGGER", 0),
                       IF trigger_is_on(cur.bLeftTrigger)
                       THEN "KEYDOWN" ELSE "KEYUP"),
          last |-> [last EXCEPT !.bLeftTrigger = cur.bLeftTrigger]]
    ELSE IF trigger_is_on(cur.bRightTrigger) # trigger_is_on(last.bRightTrigger)
    THEN [ret |-> "SUCCESS",
          event |-> Keystroke(Vk("VK_PAD_RTRIGGER", 0),
                       IF trigger_is_on(cur.bRightTrigger)
                       THEN "KEYDOWN" ELSE "KEYUP"),
          last |-> [last EXCEPT !.bRightTrigger = cur.bRightTrigger]]
    ELSE LET l == check_joystick_keystroke(cur.sThumbLX, cur.sThumbLY,
                      last.sThumbLX, last.sThumbLY, "VK_PAD_LTHUMB_UP")
             last_l == [last EXCEPT !.sThumbLX = l.last_x,
                                    !.sThumbLY = l.last_y]
             r == check_joystick_keystroke(cur.sThumbRX, cur.sThumbRY,
                      last.sThumbRX, last.sThumbRY, "VK_PAD_RTHUMB_UP") IN
         IF l.ret = "SUCCESS"
         THEN [ret |-> l.ret, event |-> l.event, last |-> last_l]
         ELSE [ret |-> r.ret, event |-> r.event,
               last |-> [last_l EXCEPT !.sThumbRX = r.last_x,
                                       !.sThumbRY = r.last_y]]

\* the button the key history watches: A, which ten entries precede
WatchedButton == 11

\* a poll has read the pad cur, in the middle of a frame's handling or not
SnapshotPolled(h, cur, mid) ==
    IF h.track # "keys" THEN h
    ELSE LET bit == Masked(cur.wButtons, buttons[WatchedButton].mask) IN
         [h EXCEPT !.keys.prev = bit,
                   !.keys.torn = @ \/ mid,
                   !.keys.rises = @ + (IF h.keys.prev = 0 /\ bit = 1 THEN 1 ELSE 0),
                   !.keys.falls = @ + (IF h.keys.prev = 1 /\ bit = 0 THEN 1 ELSE 0)]

\* a poll has read wButtons again, for entry i
SnapshotReadAgain(h, cur_w, last_w, i) ==
    IF h.track = "keys"
          /\ Masked(cur_w, buttons[i].mask) = Masked(last_w, buttons[i].mask)
    THEN [h EXCEPT !.keys.torn = TRUE]
    ELSE h

\* a poll has returned
PollReturned(h, ret, event) ==
    IF h.track = "keys"
    THEN [h EXCEPT
            !.keys.downs = @ + (IF event = Keystroke(Vk(buttons[WatchedButton].vk, 0),
                                                     "KEYDOWN") THEN 1 ELSE 0),
            !.keys.ups = @ + (IF event = Keystroke(Vk(buttons[WatchedButton].vk, 0),
                                                   "KEYUP") THEN 1 ELSE 0),
            !.keys.away = @ \/ ret = "DEVICE_NOT_CONNECTED"]
    ELSE IF h.track \in {"log", "drain"}
         THEN [h EXCEPT !.log = Append(@, [ret |-> ret, event |-> event])]
         ELSE h

(***************************************************************************)
(* XInputGetKeystroke.                                                     *)
(***************************************************************************)
KeystrokeCall(index) == [op |-> "XInputGetKeystroke", index |-> index, arg |-> 0]

\* the polls a behaviour makes: more where the synthesizer is drained
PollLimit(track) == IF track = "drain" THEN MaxDrain ELSE MaxPolls

\* line 667: the index is validated; the worker is not started
KeystrokeBegin(c, indices) ==
    /\ Alive /\ caller[c].pc = "idle"
    /\ hist.polls < PollLimit(hist.track)
    /\ \E index \in indices :
         caller' = [caller EXCEPT ![c] =
            IF index >= XUSER_MAX_COUNT /\ index # XUSER_INDEX_ANY
            THEN [pc |-> "idle", call |-> KeystrokeCall(index), eff |-> index,
                  ret |-> "BAD_ARGUMENTS", out |-> NoEvent]
            ELSE [pc |-> "ks_conn", call |-> KeystrokeCall(index),
                  eff |-> IF index # XUSER_INDEX_ANY THEN index ELSE 0,
                  ret |-> "NONE", out |-> NoEvent]]
    /\ hist' = [hist EXCEPT !.polls = @ + 1]
    /\ UNCHANGED <<controller, crit, start_event, thread_running, server_sock,
                   winsock_loaded, xinput_min_index, init_once, worker, dll,
                   sent>>

\* line 668
KeystrokeConnected(c) ==
    /\ Alive /\ caller[c].pc = "ks_conn" /\ crit = "free"
    /\ IF ControllerIsConnected(caller[c].eff)
       THEN /\ Goto(c, "ks_scan")
            /\ hist' = hist
       ELSE /\ Return(c, "DEVICE_NOT_CONNECTED", NoEvent)
            /\ hist' = PollReturned(hist, "DEVICE_NOT_CONNECTED", NoEvent)
    /\ UNCHANGED <<controller, crit, start_event, thread_running, server_sock,
                   winsock_loaded, xinput_min_index, init_once, worker, dll,
                   sent>>

\* check_for_keystroke, lines 594-598 and 618-660, outside the guard: the
\* first differing button is found, or the triggers and sticks are compared
KeystrokeScan(c) ==
    /\ Alive /\ caller[c].pc = "ks_scan"
    /\ LET cur == controller.state.Gamepad
           last == controller.last_keystroke
           i == FirstChanged(cur.wButtons, last.wButtons, 1)
           r == AfterButtons(cur, last) IN
       IF i > 0
       THEN /\ caller' = [caller EXCEPT ![c].pc = "ks_emit", ![c].eff = i]
            /\ controller' = controller
            /\ hist' = SnapshotPolled(hist, cur, worker.pc = "w_fill")
       ELSE /\ Return(c, r.ret, r.event)
            /\ controller' = [controller EXCEPT !.last_keystroke = r.last]
            /\ hist' = PollReturned(SnapshotPolled(hist, cur, worker.pc = "w_fill"),
                                    r.ret, r.event)
    /\ UNCHANGED <<crit, start_event, thread_running, server_sock,
                   winsock_loaded, xinput_min_index, init_once, worker, dll,
                   sent>>

\* check_for_keystroke, lines 599-612, outside the guard: wButtons is read
\* again for the direction of the event
KeystrokeEmit(c) ==
    /\ Alive /\ caller[c].pc = "ks_emit"
    /\ LET e == ButtonEvent(controller.state.Gamepad.wButtons,
                            controller.last_keystroke.wButtons,
                            caller[c].eff) IN
         /\ Return(c, "SUCCESS", e.event)
         /\ controller' = [controller EXCEPT
                              !.last_keystroke.wButtons = e.wButtons]
         /\ hist' = PollReturned(
                        SnapshotReadAgain(hist, controller.state.Gamepad.wButtons,
                                          controller.last_keystroke.wButtons,
                                          caller[c].eff),
                        "SUCCESS", e.event)
    /\ UNCHANGED <<crit, start_event, thread_running, server_sock,
                   winsock_loaded, xinput_min_index, init_once, worker, dll,
                   sent>>

(***************************************************************************)
(* The entry points as functions of the state a call finds, for a call     *)
(* that runs from its first line to its last with no step of another       *)
(* thread in between: the return code and the output.                      *)
(***************************************************************************)
QueryOps == {"XInputGetBatteryInformation", "XInputGetDSoundAudioDeviceGuids"}

FacadeCalls ==
    Calls
        \cup [op : QueryOps, index : CallIndices, arg : {0}]
        \cup {KeystrokeCall(index) : index \in CallIndices \cup {XUSER_INDEX_ANY}}

Result(ret, out) == [ret |-> ret, out |-> out]

\* xinput_get_state, line 442: xinput_min_index after a call with this index
MinIndexAfter(index, min_index) == IF index < min_index THEN index ELSE min_index

\* xinput_get_state and its two wrappers
GetStateResult(ctl, min_index, call) ==
    IF call.arg = 0 \/ call.index >= XUSER_MAX_COUNT
    THEN Result("BAD_ARGUMENTS", "none")
    ELSE IF ~IsConnected(ctl, RemapIndex(call.index,
                                         MinIndexAfter(call.index, min_index)))
         THEN Result("DEVICE_NOT_CONNECTED", "none")
         ELSE Result("SUCCESS", IF call.op = "XInputGetState"
                                THEN StripGuide(ctl.state) ELSE ctl.state)

\* XInputGetCapabilitiesEx and XInputGetCapabilities
CapsResult(ctl, call) ==
    IF call.index >= XUSER_MAX_COUNT THEN Result("BAD_ARGUMENTS", "none")
    ELSE IF ~IsConnected(ctl, call.index)
         THEN Result("DEVICE_NOT_CONNECTED", "none")
         ELSE IF call.arg = XINPUT_FLAG_GAMEPAD
                    /\ ctl.caps.SubType # XINPUT_DEVSUBTYPE_GAMEPAD
              THEN Result("DEVICE_NOT_CONNECTED", "none")
              ELSE Result("SUCCESS", CapsOut(call.op, ctl.caps))

\* (mutant: every valid index is served by the one controller)
CheckResultAnyIndex(ctl, call, success) ==
    IF call.index >= XUSER_MAX_COUNT THEN Result("BAD_ARGUMENTS", "none")
    ELSE IF ~ctl.connected
         THEN Result("DEVICE_NOT_CONNECTED", "none")
         ELSE Result(success, "none")

\* XInputSetState (success) and XInputGetBatteryInformation,
\* XInputGetDSoundAudioDeviceGuids (success = ERROR_NOT_SUPPORTED)
CheckResult(ctl, call, success) ==
    IF call.index >= XUSER_MAX_COUNT THEN Result("BAD_ARGUMENTS", "none")
    ELSE IF ~IsConnected(ctl, call.index)
         THEN Result("DEVICE_NOT_CONNECTED", "none")
         ELSE Result(success, "none")

\* XInputGetKeystroke
KeystrokeResult(ctl, call) ==
    IF call.index >= XUSER_MAX_COUNT /\ call.index # XUSER_INDEX_ANY
    THEN Result("BAD_ARGUMENTS", NoEvent)
    ELSE IF ~IsConnected(ctl, IF call.index # XUSER_INDEX_ANY
                              THEN call.index ELSE 0)
         THEN Result("DEVICE_NOT_CONNECTED", NoEvent)
         ELSE LET cur == ctl.state.Gamepad
                  last == ctl.last_keystroke
                  i == FirstChanged(cur.wButtons, last.wButtons, 1)
                  r == AfterButtons(cur, last) IN
              IF i > 0
              THEN Result("SUCCESS",
                          ButtonEvent(cur.wButtons, last.wButtons, i).event)
              ELSE Result(r.ret, r.event)

FacadeResult(ctl, min_index, call) ==
    CASE call.op \in GetStateOps -> GetStateResult(ctl, min_index, call)
      [] call.op \in CapsOps -> CapsResult(ctl, call)
      [] call.op = "XInputSetState" -> CheckResult(ctl, call, "SUCCESS")
      [] call.op \in QueryOps -> CheckResult(ctl, call, "NOT_SUPPORTED")
      [] call.op = "XInputGetKeystroke" -> KeystrokeResult(ctl, call)
      [] OTHER -> Result("VOID", "none")

(***************************************************************************)
(* XInputGetBatteryInformation and XInputGetDSoundAudioDeviceGuids: the     *)
(* worker is not started.                                                  *)
(***************************************************************************)
QueryBegin(c, calls) ==
    /\ Alive /\ caller[c].pc = "idle"
    /\ \E call \in calls :
         caller' = [caller EXCEPT ![c] =
            [pc |-> "q_chk", call |-> call, eff |-> call.index,
             ret |-> "NONE", out |-> "none"]]
    /\ UNCHANGED <<controller, crit, start_event, thread_running, server_sock,
                   winsock_loaded, xinput_min_index, init_once, worker, dll,
                   sent, hist>>

\* lines 686-689 and 694-697; controller_is_connected takes the guard
QueryCheck(c) ==
    /\ Alive /\ caller[c].pc = "q_chk"
    /\ caller[c].call.index < XUSER_MAX_COUNT => crit = "free"
    /\ LET r == CheckResult(controller, caller[c].call, "NOT_SUPPORTED") IN
         Return(c, r.ret, r.out)
    /\ UNCHANGED <<controller, crit, start_event, thread_running, server_sock,
                   winsock_loaded, xinput_min_index, init_once, worker, dll,
                   sent, hist>>

\* the steps of a caller in the two calls
QueryStep(c, calls) ==
    \/ QueryBegin(c, calls)
    \/ QueryCheck(c)

(***************************************************************************)
(* Specifications.                                                         *)
(***************************************************************************)
\* the steps of a caller inside XInputGetState and XInputGetStateEx
CallStep(c) ==
    \/ StartGatePass(c)
    \/ StartGateInit(c)
    \/ StartWaitDone(c)
    \/ GetStateIndex(c)
    \/ GetStateSetMin(c)
    \/ GetStateRemap(c)
    \/ GetStateConnected(c)
    \/ GetStateCopy(c)

\* a caller enters XInputGetState or XInputGetStateEx, or goes on inside it
GetStateStep(c, calls) ==
    \/ BeginCall(c, calls)
    \/ CallStep(c)

\* the further steps of XInputSetState, XInputGetCapabilities(Ex), XInputEnable
OtherStep(c) ==
    \/ CheckIndex(c)
    \/ GetCapabilitiesBody(c)
    \/ EnableRead(c)
    \/ EnableWrite(c)

\* the worker's steps up to the handling of a GET_GAMEPAD reply
WorkerDiscoveryStep(frames, limit) ==
    \/ WorkerBringUp
    \/ WorkerAnnounce
    \/ WorkerLoop
    \/ WorkerRecvFatal
    \/ WorkerRecvWouldBlock(limit)
    \/ WorkerRecvFrame(frames)
    \/ WorkerGetGamepad

\* all the worker's steps
WorkerStep(frames, limit) ==
    \/ WorkerDiscoveryStep(frames, limit)
    \/ WorkerDispatchState
    \/ WorkerUpdateRefuse
    \/ WorkerUpdateEnter
    \/ WorkerUpdateFill

LoaderStep ==
    \/ DllAttach
    \/ DllDetach
    \/ DestroyEnter
    \/ DestroyRelease
    \/ DestroyFlags
    \/ DestroyClose

GetState(op, index, arg) == [op |-> op, index |-> index, arg |-> arg]

\* Spec: one caller thread polling the pad (index 0, another valid index,
\* an index out of range, a NULL pointer), the worker receiving every kind
\* of frame, and the loader.
SpecCalls ==
    {GetState("XInputGetState", 0, 1), GetState("XInputGetState", 1, 1),
     GetState("XInputGetState", XUSER_MAX_COUNT, 1),
     GetState("XInputGetState", 0, 0), GetState("XInputGetStateEx", 0, 1)}

Next ==
    \/ \E c \in {Observer} : GetStateStep(c, SpecCalls)
    \/ WorkerStep(Frames, MaxSent)
    \/ LoaderStep

Spec == Init /\ [][Next]_vars

\* SpecPkt: one caller thread polling the pad at index 0 and recording the
\* packet numbers it is given, the worker receiving every kind of frame,
\* long runs of accepted frames included, and the loader.
CallsPkt == {GetState("XInputGetStateEx", 0, 1)}

NextPkt ==
    \/ \E c \in {Observer} : GetStateStep(c, CallsPkt)
    \/ WorkerStep(Frames, 1)
    \/ WorkerFrameBurst(Frames)
    \/ LoaderStep

SpecPkt == InitTracking("packets") /\ [][NextPkt]_vars

\* SpecIdx: one caller thread calling get_state with every index, the
\* worker receiving announcements, disconnections and state frames, and
\* the loader.
CallsIdx == {call \in Calls : call.op = "XInputGetState"}

FramesIdx ==
    {f \in GetGamepadReplies : f.id \in {0, 1}}
        \cup {f \in StateFrames : f.id = 1 /\ f.buttons = 1}

NextIdx ==
    \/ \E c \in {Observer} : GetStateStep(c, CallsIdx)
    \/ WorkerStep(FramesIdx, 1)
    \/ LoaderStep

SpecIdx == InitTracking("index") /\ [][NextIdx]_vars

\* SpecMT: two caller threads using every entry point that starts the
\* worker, the worker receiving GET_GAMEPAD replies only (so that the
\* steps of controller_update_state never run), and the loader.
CallsMT ==
    {GetState("XInputGetState", 0, 1), GetState("XInputGetStateEx", 2, 1),
     [op |-> "XInputSetState", index |-> 0, arg |-> 0],
     [op |-> "XInputGetCapabilities", index |-> 0, arg |-> XINPUT_FLAG_GAMEPAD],
     [op |-> "XInputGetCapabilitiesEx", index |-> 0, arg |-> 0],
     [op |-> "XInputEnable", index |-> 0, arg |-> 0]}

FramesMT == {f \in GetGamepadReplies : f.id \in {0, 1}}

NextMT ==
    \/ \E c \in Callers : GetStateStep(c, CallsMT) \/ OtherStep(c)
    \/ WorkerDiscoveryStep(FramesMT, 1)
    \/ LoaderStep

SpecMT == Init /\ [][NextMT]_vars


\* the steps of a caller in XInputGetKeystroke
KeystrokeStep(c, indices) ==
    \/ KeystrokeBegin(c, indices)
    \/ KeystrokeConnected(c)
    \/ KeystrokeScan(c)
    \/ KeystrokeEmit(c)

\* SpecKey: one caller thread that starts the worker with a get_state call
\* and polls XInputGetKeystroke with valid and invalid indices, counting
\* the events of the A button; the worker receiving announcements and
\* state frames; no teardown.
CallsKey == {GetState("XInputGetStateEx", 0, 1)}

IndicesKey == {0, 1, XUSER_MAX_COUNT, XUSER_INDEX_ANY}

FramesKey ==
    {f \in GetGamepadReplies : f.id \in {0, 1}}
        \cup {f \in StateFrames : f.id = 1}

NextKey ==
    \/ \E c \in {Observer} : GetStateStep(c, CallsKey)
    \/ \E c \in {Observer} : KeystrokeStep(c, IndicesKey)
    \/ WorkerStep(FramesKey, 0)
    \/ DllAttach

SpecKey == InitTracking("keys") /\ [][NextKey]_vars

\* SpecTorn: SpecKey's threads, with the pad a frame overwrites recorded: one
\* caller thread that starts the worker and polls XInputGetKeystroke while
\* the worker applies announcements and state frames.
SpecTorn == InitTracking("codec") /\ [][NextKey]_vars

\* SpecAlt: SpecKey's threads with the polls logged: one caller thread,
\* last_keystroke zero at the start, the worker applying announcements and
\* state frames that connect, disconnect and reconnect the controller.
SpecAlt == InitTracking("log") /\ [][NextKey]_vars

\* SpecStick: the synthesizer as a function of the pad and last_keystroke.
\* The controller is connected, the worker waits in recvfrom and receives
\* nothing, so the snapshot stays; the pad is the decoding of one frame and
\* last_keystroke that of an earlier one; one caller polls
\* XInputGetKeystroke.
Axis == {0 - 30000, 0, 30000}

\* nothing, A, the left trigger
ButtonsStick == {0, 1, 1024}

PadsStick ==
    {UpdateFill(ZeroState,
                Frame(REQUEST_CODE_GET_GAMEPAD_STATE, 1, 1, b, 8,
                      lx, ly, rx, ry)).Gamepad :
        b \in ButtonsStick, lx \in Axis, ly \in Axis, rx \in Axis, ry \in Axis}

InitStick ==
    /\ \E cur \in PadsStick, last \in PadsStick :
         /\ controller = [ControllerInit([caps |-> ZeroCaps, state |-> ZeroState,
                                          last_keystroke |-> last,
                                          enabled |-> FALSE,
                                          connected |-> FALSE, id |-> 1])
                             EXCEPT !.state = [dwPacketNumber |-> DW(1),
                                               Gamepad |-> cur]]
         /\ hist = [created |-> 1, events |-> 1, signals |-> 1, frames |-> TRUE,
                    bringup_failed |-> FALSE, recv_failed |-> FALSE,
                    reserved |-> FALSE, destroys |-> 0,
                    polls |-> 0, keys |-> NoKeys, log |-> <<>>,
                    start |-> last,
                    least |-> XUSER_MAX_COUNT, below |-> FALSE,
                    track |-> "log",
                    seen |-> NotSeen, gap |-> "none", reset |-> FALSE,
                    first_index |-> 0 - 1, first_connected |-> FALSE,
                    later |-> FALSE, decoded |-> NoDecode, order |-> NoOrder, time |-> NoTime]
    /\ crit = "free"
    /\ start_event = [handle |-> "closed", signaled |-> FALSE]
    /\ thread_running = TRUE
    /\ server_sock = "bound"
    /\ winsock_loaded = TRUE
    /\ xinput_min_index = 0
    /\ init_once = "done"
    /\ worker = [pc |-> "w_recv", started |-> TRUE, buffer |-> NoFrame,
                 last_time |-> DW(0)]
    /\ caller = [c \in Callers |->
                    [pc |-> "idle", call |-> NoCall, eff |-> 0,
                     ret |-> "NONE", out |-> "none"]]
    /\ dll = "attached"
    /\ sent = <<GetGamepadRequest>>

NextStick == \E c \in {Observer} : KeystrokeStep(c, {0})

SpecStick == InitStick /\ [][NextStick]_vars

\* a connected controller whose pad and last_keystroke are drawn from pads
\* and lasts, with the worker waiting in recvfrom
InitPolling(pads, lasts, track) ==
    /\ \E cur \in pads, last \in lasts :
         /\ controller = [ControllerInit([caps |-> ZeroCaps, state |-> ZeroState,
                                          last_keystroke |-> last,
                                          enabled |-> FALSE,
                                          connected |-> FALSE, id |-> 1])
                             EXCEPT !.state = [dwPacketNumber |-> DW(1),
                                               Gamepad |-> cur]]
         /\ hist = [created |-> 1, events |-> 1, signals |-> 1, frames |-> TRUE,
                    bringup_failed |-> FALSE, recv_failed |-> FALSE,
                    reserved |-> FALSE, destroys |-> 0,
                    polls |-> 0, keys |-> NoKeys, log |-> <<>>,
                    start |-> last,
                    least |-> XUSER_MAX_COUNT, below |-> FALSE,
                    track |-> track,
                    seen |-> NotSeen, gap |-> "none", reset |-> FALSE,
                    first_index |-> 0 - 1, first_connected |-> FALSE,
                    later |-> FALSE, decoded |-> NoDecode, order |-> NoOrder, time |-> NoTime]
    /\ crit = "free"
    /\ start_event = [handle |-> "closed", signaled |-> FALSE]
    /\ thread_running = TRUE
    /\ server_sock = "bound"
    /\ winsock_loaded = TRUE
    /\ xinput_min_index = 0
    /\ init_once = "done"
    /\ worker = [pc |-> "w_recv", started |-> TRUE, buffer |-> NoFrame,
                 last_time |-> DW(0)]
    /\ caller = [c \in Callers |->
                    [pc |-> "idle", call |-> NoCall, eff |-> 0,
                     ret |-> "NONE", out |-> "none"]]
    /\ dll = "attached"
    /\ sent = <<GetGamepadRequest>>

\* SpecSynth: the synthesizer drained.  The worker receives nothing, so the
\* snapshot stays; the pad and last_keystroke are decodings of frames with
\* no, one, ten or all button bits, the d-pad neutral, up-right or
\* down-left, and each
\* stick centred or in one of two directions; one caller polls
\* XInputGetKeystroke until nothing is pending and twice more.
WireButtonsSynth == {0, 1, 1023, 2048, 3072, 4095}

PadsSynth ==
    {UpdateFill(ZeroState,
                Frame(REQUEST_CODE_GET_GAMEPAD_STATE, 1, 1, b, d,
                      l[1], l[2], r[1], r[2])).Gamepad :
        b \in WireButtonsSynth, d \in {1, 5, 8},
        l \in {<<0, 0>>, <<0, 0 - 30000>>, <<0 - 30000, 30000>>},
        r \in {<<0, 0>>, <<30000, 0>>, <<0, 30000>>}}

NextSynth == \E c \in {Observer} : KeystrokeStep(c, {0})

SpecSynth == InitPolling(PadsSynth, PadsSynth, "drain") /\ [][NextSynth]_vars

\* SpecQuant: the sticks at the thresholds.  The pad and last_keystroke are
\* decodings of frames with no button and one stick at axis values around
\* the thresholds and at the ends of the range, and of one frame with the A
\* button and the left stick down; the snapshot stays and one
\* caller polls XInputGetKeystroke.
WireAxesQuant ==
    {0 - 32768, 0 - 32767, 0 - 20001, 0 - 20000, 0, 20000, 20001, 32767}

PadsQuant ==
    {UpdateFill(ZeroState,
                Frame(REQUEST_CODE_GET_GAMEPAD_STATE, 1, 1, 0, 8,
                      x, y, 0, 0)).Gamepad :
        x \in WireAxesQuant, y \in WireAxesQuant}
    \cup {UpdateFill(ZeroState,
                     Frame(REQUEST_CODE_GET_GAMEPAD_STATE, 1, 1, 0, 8,
                           0, 0, x, y)).Gamepad :
             x \in WireAxesQuant, y \in WireAxesQuant}
    \cup {UpdateFill(ZeroState,
                     Frame(REQUEST_CODE_GET_GAMEPAD_STATE, 1, 1, 1, 8,
                           0, 20001, 0, 0)).Gamepad}

SpecQuant == InitPolling(PadsQuant, PadsQuant, "log") /\ [][NextSynth]_vars

\* SpecPad: one caller thread reading the pad through both get_state entry
\* points, the worker receiving announcements and state frames whose
\* buttons field has every bit set, only the trigger bits, or none, with
\* every d-pad value; no teardown.
CallsPad ==
    {GetState("XInputGetState", 0, 1), GetState("XInputGetStateEx", 0, 1)}

\* the values of the wire's buttons field: none, bits 10 and 11, all 16
WireButtons == {0, 3072, 65535}

\* the values of the wire's dpad byte: the eight directions and neutral
WireDpads == 0 .. 8

FramesPad ==
    {f \in GetGamepadReplies : f.id = 1}
        \cup {Frame(REQUEST_CODE_GET_GAMEPAD_STATE, 1, 1, b, d, 0, 0, 0, 0) :
                 b \in WireButtons, d \in WireDpads}
        \cup {Frame(REQUEST_CODE_GET_GAMEPAD_STATE, 0, 1, 0, 8, 0, 0, 0, 0)}

NextPad ==
    \/ \E c \in {Observer} : GetStateStep(c, CallsPad)
    \/ WorkerStep(FramesPad, 0)
    \/ DllAttach

SpecPad == Init /\ [][NextPad]_vars

\* the steps of a caller in XInputEnable
EnableStep(c, calls) ==
    \/ BeginCall(c, calls)
    \/ StartGatePass(c)
    \/ StartGateInit(c)
    \/ StartWaitDone(c)
    \/ EnableRead(c)
    \/ EnableWrite(c)

\* SpecDown: two caller threads in XInputEnable(TRUE), the worker receiving
\* GET_GAMEPAD replies only, and the loader with its teardown.
CallsDown == {[op |-> "XInputEnable", index |-> 0, arg |-> 1]}

NextDown ==
    \/ \E c \in Callers : EnableStep(c, CallsDown)
    \/ WorkerDiscoveryStep(FramesMT, 1)
    \/ LoaderStep

SpecDown == Init /\ [][NextDown]_vars

\* SpecLive: one caller thread polling the pad at index 0, the worker
\* receiving announcements and state frames, and the loader, with the worker
\* and the loader scheduled fairly: a thread that can take a step and keeps
\* being able to takes one.
CallsLive == {GetState("XInputGetState", 0, 1)}

FramesLive ==
    {f \in GetGamepadReplies : f.id \in {0, 1}}
        \cup {f \in StateFrames : f.id = 1}

NextLive ==
    \/ \E c \in {Observer} : GetStateStep(c, CallsLive)
    \/ WorkerStep(FramesLive, MaxSent)
    \/ LoaderStep

SpecLive ==
    /\ Init /\ [][NextLive]_vars
    /\ WF_vars(WorkerStep(FramesLive, MaxSent))
    /\ WF_vars(LoaderStep)

\* SpecEn: two caller threads in XInputEnable(FALSE) and XInputEnable(TRUE),
\* the worker receiving GET_GAMEPAD replies only; no teardown.
CallsEn == [op : {"XInputEnable"}, index : {0}, arg : {0, 1}]

NextEn ==
    \/ \E c \in Callers : EnableStep(c, CallsEn)
    \/ WorkerDiscoveryStep(FramesMT, 1)
    \/ DllAttach

SpecEn == Init /\ [][NextEn]_vars

\* SpecArgs: one caller thread in XInputSetState, XInputGetCapabilities(Ex),
\* XInputGetBatteryInformation and XInputGetDSoundAudioDeviceGuids with
\* indices 0, 1 and 4, and in XInputGetState(1), which moves
\* xinput_min_index; the worker receiving GET_GAMEPAD replies only; no
\* teardown.
IndicesArgs == {0, 1, XUSER_MAX_COUNT}

CallsArgs ==
    [op : {"XInputSetState"}, index : IndicesArgs, arg : {0}]
        \cup [op : CapsOps, index : IndicesArgs, arg : {XINPUT_FLAG_GAMEPAD}]
        \cup {GetState("XInputGetState", 1, 1)}

QueriesArgs == [op : QueryOps, index : IndicesArgs, arg : {0}]

NextArgs ==
    \/ \E c \in {Observer} :
          GetStateStep(c, CallsArgs) \/ CheckIndex(c) \/ GetCapabilitiesBody(c)
    \/ \E c \in {Observer} : QueryStep(c, QueriesArgs)
    \/ WorkerDiscoveryStep(FramesMT, 1)
    \/ DllAttach

SpecArgs == Init /\ [][NextArgs]_vars

\* SpecSeq: one caller thread making get_state and get_state_ex calls one
\* after the other with indices 0, 1, 2 and 4 and with a state pointer or
\* NULL, the worker receiving GET_GAMEPAD replies only; no teardown.
CallsSeq == [op : GetStateOps, index : {0, 1, 2, XUSER_MAX_COUNT}, arg : {0, 1}]

NextSeq ==
    \/ \E c \in {Observer} : GetStateStep(c, CallsSeq)
    \/ WorkerDiscoveryStep(FramesMT, 1)
    \/ DllAttach

SpecSeq == InitTracking("least") /\ [][NextSeq]_vars

\* SpecCodec: controller_update_state as a function of the frame and of
\* the pad it overwrites.  The controller is connected with id 1 and holds
\* the decoding of an earlier frame; the worker has just received one
\* GAMEPAD_STATE frame and runs controller_update_state on it.
\* the wire's buttons field: nothing, each single bit, all bits, bits 12-15
\* alone, and bits 12-15 with SELECT (bit 6) and L2 (bit 10)
WireButtonsCodec ==
    {0, 65535, 61440, 62528} \cup {2 ^ i : i \in 0 .. 15}

\* the wire's dpad byte: the eight directions, neutral, and other values
WireDpadsCodec == (0 .. 9) \cup {127, 128, 255}

\* the wire's axes: the ends of the SHORT range and values around zero
WireAxesCodec == {0 - 32768, 0 - 32767, 0 - 1, 0, 1, 32767}

FramesCodec ==
    {Frame(REQUEST_CODE_GET_GAMEPAD_STATE, 1, 1, b, d, 0, 0, 0, 0) :
        b \in WireButtonsCodec, d \in WireDpadsCodec}
    \cup {Frame(REQUEST_CODE_GET_GAMEPAD_STATE, 1, 1, 0, 8, lx, ly, rx, ry) :
             lx \in WireAxesCodec, ly \in WireAxesCodec,
             rx \in WireAxesCodec, ry \in WireAxesCodec}
    \cup {Frame(REQUEST_CODE_GET_GAMEPAD_STATE, st, id, 65535, 0, 1, 1, 1, 1) :
             st \in {0, 1}, id \in {1, 2}}

\* the pad before: untouched since the connection, or an earlier frame
\* with every button, both triggers and all axes away from zero
PadsCodec ==
    {ZeroState,
     UpdateFill(ZeroState,
                Frame(REQUEST_CODE_GET_GAMEPAD_STATE, 1, 1, 65535, 1,
                      7, 0 - 7, 0 - 7, 7))}

InitCodec ==
    /\ \E st \in PadsCodec, f \in FramesCodec :
         /\ controller = [ControllerInit([caps |-> ZeroCaps, state |-> ZeroState,
                                          last_keystroke |-> ZeroGamepad,
                                          enabled |-> FALSE,
                                          connected |-> FALSE, id |-> 1])
                             EXCEPT !.state = st]
         /\ worker = [pc |-> "w_dispatch", started |-> TRUE, buffer |-> f,
                       last_time |-> DW(0)]
    /\ hist = [created |-> 1, events |-> 1, signals |-> 1, frames |-> TRUE,
               bringup_failed |-> FALSE, recv_failed |-> FALSE,
               reserved |-> FALSE, destroys |-> 0,
               polls |-> 0, keys |-> NoKeys, log |-> <<>>,
               start |-> ZeroGamepad,
               least |-> XUSER_MAX_COUNT, below |-> FALSE,
               track |-> "codec",
               seen |-> NotSeen, gap |-> "none", reset |-> FALSE,
               first_index |-> 0 - 1, first_connected |-> FALSE,
               later |-> FALSE, decoded |-> NoDecode, order |-> NoOrder, time |-> NoTime]
    /\ crit = "free"
    /\ start_event = [handle |-> "closed", signaled |-> FALSE]
    /\ thread_running = TRUE
    /\ server_sock = "bound"
    /\ winsock_loaded = TRUE
    /\ xinput_min_index = 0
    /\ init_once = "done"
    /\ caller = [c \in Callers |->
                    [pc |-> "idle", call |-> NoCall, eff |-> 0,
                     ret |-> "NONE", out |-> "none"]]
    /\ dll = "attached"
    /\ sent = <<GetGamepadRequest>>

NextCodec ==
    \/ WorkerDispatchState
    \/ WorkerUpdateRefuse
    \/ WorkerUpdateEnter
    \/ WorkerUpdateFill

SpecCodec == InitCodec /\ [][NextCodec]_vars

\* SpecGate: one caller thread polling the pad at index 0, the worker
\* receiving every kind of frame in every order, with the frames delivered
\* and the GET_GAMEPAD replies handled counted, and the loader.
NextGate ==
    \/ \E c \in {Observer} : GetStateStep(c, CallsLive)
    \/ WorkerStep(Frames, 1)
    \/ LoaderStep

SpecGate == InitTracking("order") /\ [][NextGate]_vars

\* SpecClock: the worker's loop with its clock.  One caller thread starts
\* the worker; the worker reads the tick count at line 305 and at every
\* pass that finds nothing to receive, and receives GET_GAMEPAD replies
\* that connect and disconnect the controller; no teardown.
NextClock ==
    \/ \E c \in {Observer} : GetStateStep(c, CallsLive)
    \/ WorkerBringUp
    \/ WorkerAnnounceAt
    \/ WorkerLoop
    \/ WorkerRecvFatal
    \/ WorkerRecvWouldBlockAt(MaxSent + 1)
    \/ WorkerRecvFrame(FramesMT)
    \/ WorkerGetGamepad
    \/ DllAttach

SpecClock == Init /\ [][NextClock]_vars

(***************************************************************************)
(* Properties.                                                             *)
(***************************************************************************)
\* the steps the properties speak of, told by the positions they move
CopyStep(c) == caller[c].pc = "gs_copy" /\ caller'[c].pc = "idle"
CheckStep(c) == caller[c].pc = "gs_conn" /\ caller'[c].pc # "gs_conn"
RefuseStep == worker.pc = "w_update" /\ worker'.pc = "w_loop"
FillStep == worker.pc = "w_fill" /\ worker'.pc = "w_loop"
ConnectStep == ~controller.connected /\ controller'.connected
TeardownStep == dll = "d_flags" /\ dll' = "d_close"
ValidGetState(k) ==
    /\ k.call.op \in GetStateOps
    /\ k.call.arg # 0
    /\ k.call.index < XUSER_MAX_COUNT

\* C1: a successful get_state never delivers a pad with buttons set when
\* connected is false at the instant the pad is copied.
C1_NoButtonsWhenDisconnected ==
    [][\A c \in Callers :
          CopyStep(c) =>
              \/ controller.connected
              \/ caller'[c].out.Gamepad.wButtons = 0]_vars

\* C2 as stated: every accepted GAMEPAD_STATE frame makes packet_number one
\* larger, and a successful get_state that follows another one with only
\* accepted state frames handled in between returns a strictly larger
\* packet number.
C2_StrictlyIncreasing ==
    [][/\ FillStep =>
            /\ controller.state.dwPacketNumber # DWMax
            /\ controller'.state.dwPacketNumber
                   = DWInc(controller.state.dwPacketNumber)
       /\ (CopyStep(Observer) /\ hist.seen.known /\ hist.gap = "acc") =>
            DWLess(hist.seen.pkt, caller'[Observer].out.dwPacketNumber)]_vars

\* C2 amended: every accepted GAMEPAD_STATE frame increments packet_number
\* by one modulo 2^32, and a successful get_state that follows another one
\* with only accepted state frames handled in between returns a strictly
\* larger packet number unless the counter wrapped in between.
C2_IncreasingModulo ==
    [][/\ FillStep =>
            controller'.state.dwPacketNumber
                = DWInc(controller.state.dwPacketNumber)
       /\ (CopyStep(Observer) /\ hist.seen.known /\ hist.gap = "acc"
              /\ ~hist.reset) =>
            DWLess(hist.seen.pkt, caller'[Observer].out.dwPacketNumber)]_vars

\* the second of two successful calls is about to copy a pad that accepted
\* frames, and nothing else, have counted up since the first
C2_Witness ==
    /\ caller[Observer].pc = "gs_copy" /\ crit = "free"
    /\ hist.seen.known /\ hist.gap = "acc" /\ ~hist.reset
    /\ hist.seen.pkt = DW(1)
    /\ controller.state.dwPacketNumber = DW(2)
    /\ controller.connected

\* C3 as stated: whatever frames arrive, the packet numbers one caller is
\* given by successive successful get_state calls never decrease.
C3_NeverDecreases ==
    [][(CopyStep(Observer) /\ hist.seen.known) =>
          DWLeq(hist.seen.pkt, caller'[Observer].out.dwPacketNumber)]_vars

\* C3 amended: the packet numbers one caller is given by successive
\* successful get_state calls never decrease, unless between the two calls
\* the pad was zeroed (a refused state frame, or an announcement that
\* re-initialised a disconnected controller) or the counter wrapped.
C3_NeverDecreasesUnlessReset ==
    [][(CopyStep(Observer) /\ hist.seen.known /\ ~hist.reset) =>
          DWLeq(hist.seen.pkt, caller'[Observer].out.dwPacketNumber)]_vars

\* a second successful call is about to copy a pad that frames of several
\* kinds, none of which zeroed it, have left with a larger packet number
C3_Witness ==
    /\ caller[Observer].pc = "gs_copy" /\ crit = "free"
    /\ hist.seen.known /\ hist.gap = "other" /\ ~hist.reset
    /\ hist.seen.pkt = DW(1)
    /\ controller.state.dwPacketNumber = DW(2)
    /\ controller.connected

\* C4: a refused state frame sets connected false, zeroes the whole pad and
\* changes nothing else; from then on connected becomes true only by a
\* GET_GAMEPAD reply with id > 0, and a get_state call that checks the
\* connection while it is false returns DEVICE_NOT_CONNECTED whatever its
\* index.
C4_RefusedFrameDisconnects ==
    [][/\ RefuseStep =>
            /\ ~controller'.connected
            /\ controller'.state = ZeroState
            /\ controller'.caps = controller.caps
            /\ controller'.last_keystroke = controller.last_keystroke
            /\ controller'.enabled = controller.enabled
            /\ controller'.id = controller.id
            /\ UNCHANGED <<crit, start_event, thread_running, server_sock,
                           winsock_loaded, xinput_min_index, init_once,
                           caller, dll, sent>>
       /\ ConnectStep =>
            /\ worker.pc = "w_dispatch" /\ worker'.pc = "w_loop"
            /\ worker.buffer.op = REQUEST_CODE_GET_GAMEPAD
            /\ worker.buffer.id > 0
       /\ \A c \in Callers :
            (CheckStep(c) /\ ~controller.connected) =>
                /\ caller'[c].pc = "idle"
                /\ caller'[c].ret = "DEVICE_NOT_CONNECTED"]_vars

\* after a refused frame (the id is kept, the pad is zero, no teardown has
\* run) a get_state call has been answered DEVICE_NOT_CONNECTED
C4_Witness ==
    /\ dll = "attached"
    /\ ~controller.connected /\ controller.id > 0
    /\ controller.state = ZeroState
    /\ controller.caps = FilledCaps
    /\ worker.pc = "w_loop" /\ hist.frames
    /\ caller[Observer].pc = "idle"
    /\ ValidGetState(caller[Observer])
    /\ caller[Observer].call.index = 1
    /\ caller[Observer].ret = "DEVICE_NOT_CONNECTED"

\* C5: when connected goes from false to true the pad is all-zero with
\* packet number 0, enabled is true and the id is the announced one; so a
\* successful get_state never returns a pad left from before a disconnect.
C5_ConnectStartsFromZero ==
    [][/\ ConnectStep =>
            /\ controller'.state = ZeroState
            /\ controller'.enabled
            /\ controller'.id = worker.buffer.id
       /\ \A c \in Callers :
            CopyStep(c) =>
                \/ controller.connected
                \/ caller'[c].out = ZeroState]_vars

\* C6 as stated: the first get_state call, made while the controller is
\* connected, is served as controller 0, and every later call with a
\* different index in 0..3 returns DEVICE_NOT_CONNECTED.
C6_OtherIndexRefused ==
    LET k == caller[Observer] IN
    (dll = "attached" /\ ValidGetState(k) /\ hist.first_index >= 0
        /\ hist.first_connected) =>
        /\ (k.pc \in {"gs_conn", "gs_copy"} /\ ~hist.later) => k.eff = 0
        /\ (k.pc = "idle" /\ k.ret # "NONE"
               /\ k.call.index # hist.first_index) =>
              k.ret = "DEVICE_NOT_CONNECTED"

\* C6 amended: until teardown the first get_state call is served as
\* controller 0, and every later call with a larger index in 0..3 returns
\* DEVICE_NOT_CONNECTED (a later call with a smaller index is served as
\* controller 0 in its turn).
C6_LargerIndexRefused ==
    LET k == caller[Observer] IN
    (dll = "attached" /\ ValidGetState(k) /\ hist.first_index >= 0) =>
        /\ (k.pc \in {"gs_conn", "gs_copy"} /\ ~hist.later) => k.eff = 0
        /\ (k.pc = "idle" /\ k.ret # "NONE"
               /\ k.call.index > hist.first_index) =>
              k.ret = "DEVICE_NOT_CONNECTED"

\* while the controller is connected, a call with index 3 has been refused
\* after a first call with index 1
C6_Witness ==
    /\ dll = "attached" /\ controller.connected /\ worker.pc = "w_loop"
    /\ hist.first_index = 1 /\ hist.first_connected /\ hist.later
    /\ xinput_min_index = 1
    /\ caller[Observer].pc = "idle"
    /\ ValidGetState(caller[Observer])
    /\ caller[Observer].call.index = 3
    /\ caller[Observer].ret = "DEVICE_NOT_CONNECTED"

\* C7: xinput_min_index is always in 0..3, and no step other than teardown
\* ever makes it larger.
C7_MinIndexNeverIncreases ==
    [][/\ xinput_min_index' \in 0 .. (XUSER_MAX_COUNT - 1)
       /\ ~TeardownStep => xinput_min_index' <= xinput_min_index]_vars

\* C8: the worker and the readiness event are created at most once, however
\* many callers pass the start gate and whether or not teardown has run.
C8_WorkerCreatedOnce == hist.created <= 1 /\ hist.events <= 1

\* after teardown, both callers are inside calls of different entry points,
\* past the start gate, with one worker created
C8_Witness ==
    /\ dll = "d_done" /\ hist.created = 1 /\ hist.events = 1
    /\ caller["c1"].pc = "gs_conn" /\ caller["c2"].pc = "chk"
    /\ init_once = "done"

\* C9: as long as no frame has been delivered, a caller waiting for the
\* worker can always go on (the wait times out), no call is blocked while
\* the guard is free, connected is false and every completed get_state
\* with a valid index has returned DEVICE_NOT_CONNECTED.
C9_NoFrameNoController ==
    ~hist.frames =>
        /\ ~controller.connected
        /\ crit \in {"free", "loader"}
        /\ \A c \in {Observer} :
             /\ (Alive /\ caller[c].pc = "wait") => ENABLED StartWaitDone(c)
             /\ (Alive /\ caller[c].pc # "idle" /\ crit = "free") =>
                    ENABLED CallStep(c)
             /\ (caller[c].pc = "idle" /\ caller[c].ret # "NONE"
                    /\ ValidGetState(caller[c])) =>
                    caller[c].ret = "DEVICE_NOT_CONNECTED"

\* the transport is up, the worker polls, no frame has come and the event
\* was never signalled: the first call has returned DEVICE_NOT_CONNECTED
C9_Witness ==
    /\ ~hist.frames /\ hist.signals = 0
    /\ init_once = "done" /\ start_event.handle = "closed"
    /\ worker.pc = "w_recv" /\ server_sock = "bound"
    /\ caller[Observer].pc = "idle"
    /\ ValidGetState(caller[Observer])
    /\ caller[Observer].call.index = 0
    /\ caller[Observer].ret = "DEVICE_NOT_CONNECTED"

\* C10: once the transport bring-up has failed, the worker has called
\* SetEvent exactly once and has terminated, it has sent no datagram, no
\* frame has been received and connected is false.
C10_BringUpFailureStopsWorker ==
    hist.bringup_failed =>
        /\ worker.pc = "w_failed"
        /\ ~ENABLED WorkerStep(Frames, MaxSent)
        /\ hist.signals = 1
        /\ \A i \in 1 .. Len(sent) : sent[i][1] # REQUEST_CODE_GET_GAMEPAD
        /\ ~hist.frames
        /\ ~controller.connected

\* the bring-up failed after the socket was created (the address-reuse
\* option or the bind), and the first call has been answered
C10_Witness ==
    /\ hist.bringup_failed /\ worker.pc = "w_failed"
    /\ server_sock = "unbound" /\ winsock_loaded
    /\ init_once = "done"
    /\ caller[Observer].pc = "idle"
    /\ caller[Observer].ret = "DEVICE_NOT_CONNECTED"

\* the worker has returned because the transport failed
WorkerExitedOnFailure ==
    \/ hist.bringup_failed /\ worker.pc = "w_failed"
    \/ hist.recv_failed /\ worker.pc = "w_done"

\* C11: once the worker has exited on a transport failure, every get_state,
\* set_state and get_capabilities call with a valid index whose connection
\* check follows returns DEVICE_NOT_CONNECTED.
C11_TransportFailureDisconnects ==
    [][\A c \in Callers :
          (/\ WorkerExitedOnFailure
           /\ caller[c].pc \in {"gs_conn", "chk"}
           /\ caller'[c].pc # caller[c].pc
           /\ caller[c].call.index < XUSER_MAX_COUNT) =>
              /\ caller'[c].pc = "idle"
              /\ caller'[c].ret = "DEVICE_NOT_CONNECTED"]_vars

\* the pads that stand between two frame-processing steps: the zero pad
\* and the pads the frames decode to
WholePads ==
    {ZeroGamepad} \cup {UpdateFill(ZeroState, f).Gamepad : f \in StateFrames}

\* C12: a successful get_state copies the pad while no GAMEPAD_STATE frame
\* is partially applied, so the pad it returns is one that stood between
\* two frame-processing steps (all its fields come from the same frame).
C12_NoTornPad ==
    [][\A c \in Callers :
          CopyStep(c) =>
              /\ worker.pc # "w_fill"
              /\ caller'[c].out.Gamepad \in WholePads
              /\ caller'[c].out.dwPacketNumber
                     = controller.state.dwPacketNumber]_vars

\* a call has returned the pad of the first frame while the next frame is
\* partially applied: the buttons are cleared, the rest is still the old pad
C12_Witness ==
    /\ caller[Observer].pc = "idle" /\ caller[Observer].ret = "SUCCESS"
    /\ caller[Observer].call.op = "XInputGetStateEx"
    /\ caller[Observer].out.Gamepad.wButtons # 0
    /\ caller[Observer].out.dwPacketNumber = DW(1)
    /\ worker.pc = "w_fill" /\ crit = "worker"
    /\ controller.state.Gamepad \notin WholePads

\* C13: a thread reads or writes a snapshot field only while it holds the
\* guard; so XInputEnable's read of connected and write of enabled, and
\* the worker's read of connected before controller_update_state, never
\* happen while another thread holds the guard.
C13_SnapshotAccessGuarded ==
    [][/\ \A c \in Callers :
            (caller[c].pc \in {"en_read", "en_write"}
                /\ caller'[c].pc # caller[c].pc) => crit \in {"free", c}
       /\ (worker.pc = "w_dispatch"
              /\ worker.buffer.op = REQUEST_CODE_GET_GAMEPAD_STATE
              /\ worker'.pc # "w_dispatch") => crit \in {"free", "worker"}]_vars

\* the observer's XInputGetKeystroke call has just returned ret
PolledStep(ret) ==
    /\ caller[Observer].pc \in {"ks_conn", "ks_scan", "ks_emit"}
    /\ caller'[Observer].pc = "idle"
    /\ caller'[Observer].ret = ret

\* C14: for a single caller polling get_keystroke while connected, the
\* number of KEYDOWN (KEYUP) events emitted for a button equals the number of
\* rising (falling) transitions of its bit between the snapshots seen at
\* successive polls.  Stated for the A button at the polls that return
\* EMPTY, when nothing is left to report, in behaviours where every poll
\* found the controller connected and read a whole snapshot, the same twice.
C14_EventsMatchTransitions ==
    [][(/\ PolledStep("EMPTY")
        /\ ~hist'.keys.away /\ ~hist'.keys.torn) =>
            /\ hist'.keys.downs = hist'.keys.rises
            /\ hist'.keys.ups = hist'.keys.falls]_vars

\* the virtual key of the left ("L") or the right ("R") stick of a pad
StickOf(pad, stick) ==
    IF stick = "L"
    THEN StickVk("VK_PAD_LTHUMB_UP", pad.sThumbLX, pad.sThumbLY)
    ELSE StickVk("VK_PAD_RTHUMB_UP", pad.sThumbRX, pad.sThumbRY)

\* when the polls began last_keystroke recorded the stick in a direction, the
\* snapshot holds it in another direction, and no button or trigger
\* difference (and, for the right stick, no left-stick difference) is pending
StickMoved(stick) ==
    LET cur == controller.state.Gamepad
        last == hist.start IN
    /\ StickOf(last, stick) # NoVk /\ StickOf(cur, stick) # NoVk
    /\ StickOf(last, stick) # StickOf(cur, stick)
    /\ FirstChanged(cur.wButtons, last.wButtons, 1) = 0
    /\ trigger_is_on(cur.bLeftTrigger) = trigger_is_on(last.bLeftTrigger)
    /\ trigger_is_on(cur.bRightTrigger) = trigger_is_on(last.bRightTrigger)
    /\ stick = "R" => StickOf(last, "L") = StickOf(cur, "L")

\* the first two polls have returned KEYUP of the old direction, then KEYDOWN
\* of the new one
UpThenDown(stick) ==
    /\ Len(hist.log) >= 1 =>
          hist.log[1] = [ret |-> "SUCCESS",
                         event |-> Keystroke(StickOf(hist.start, stick), "KEYUP")]
    /\ Len(hist.log) >= 2 =>
          hist.log[2] = [ret |-> "SUCCESS",
                         event |-> Keystroke(StickOf(controller.state.Gamepad, stick),
                                             "KEYDOWN")]

ThirdEmpty ==
    Len(hist.log) >= 3 => hist.log[3] = [ret |-> "EMPTY", event |-> NoEvent]

\* C15 (as stated): if last_keystroke records a stick in direction a and the
\* snapshot holds it in a different non-null direction b and stays, with no
\* button or trigger difference (and, for the right stick, no left-stick
\* difference) pending, then get_keystroke returns KEYUP of a, then KEYDOWN
\* of b, and the third call returns EMPTY.
C15_UpDownThenEmpty ==
    \A stick \in {"L", "R"} :
        StickMoved(stick) => UpThenDown(stick) /\ ThirdEmpty

\* C15 (amended): the first two calls return KEYUP of a, then KEYDOWN of b;
\* the third returns EMPTY when, for the left stick, the right stick has no
\* difference pending either.
C15_UpDownThenEmptyIfNothingElse ==
    \A stick \in {"L", "R"} :
        StickMoved(stick) =>
            /\ UpThenDown(stick)
            /\ (stick = "L" => StickOf(hist.start, "R")
                                   = StickOf(controller.state.Gamepad, "R"))
                  => ThirdEmpty

\* the right stick went from one direction to another while the left one
\* was held, and three polls have returned
C15_Witness ==
    /\ StickMoved("R")
    /\ StickOf(hist.start, "L") # NoVk
    /\ Len(hist.log) = 3
    /\ hist.log[1].event.Flags = "KEYUP"
    /\ hist.log[2].event.Flags = "KEYDOWN"
    /\ hist.log[3].ret = "EMPTY"

\* C16: for an index that is XUSER_INDEX_ANY or less than 4, get_keystroke
\* returns DEVICE_NOT_CONNECTED exactly when the controller is disconnected,
\* leaving last_keystroke unchanged, and otherwise the synthesizer's result,
\* SUCCESS with one event or EMPTY with none; for every other index it
\* returns BAD_ARGUMENTS.
C16_KeystrokeResult ==
    [][/\ (caller[Observer].pc = "ks_conn" /\ caller'[Observer].pc # "ks_conn") =>
             /\ (caller'[Observer].pc = "idle"
                    /\ caller'[Observer].ret = "DEVICE_NOT_CONNECTED")
                   <=> ~controller.connected
             /\ controller'.last_keystroke = controller.last_keystroke
       /\ (caller[Observer].pc \in {"ks_scan", "ks_emit"}
              /\ caller'[Observer].pc = "idle") =>
             /\ caller'[Observer].ret \in {"SUCCESS", "EMPTY"}
             /\ caller'[Observer].ret = "SUCCESS"
                   <=> caller'[Observer].out # NoEvent
       /\ (hist'.polls # hist.polls) =>
             (caller'[Observer].ret = "BAD_ARGUMENTS" /\ caller'[Observer].pc = "idle")
                <=> (caller'[Observer].call.index >= XUSER_MAX_COUNT
                        /\ caller'[Observer].call.index # XUSER_INDEX_ANY)]_vars

\* wButtons holds none of the two bits no button is mapped to
OnlyMappedButtons(w) == Bit(w, 10) = 0 /\ Bit(w, 11) = 0

\* C17: in every reachable state the pad's buttons contain only the 14
\* mapped flags (0x0400, the guide button, and 0x0800 are never set), so
\* get_state and get_state_ex deliver identical pads, with GUIDE clear.
C17_GuideNeverSet ==
    /\ OnlyMappedButtons(controller.state.Gamepad.wButtons)
    /\ StripGuide(controller.state) = controller.state
    /\ \A c \in Callers :
          (caller[c].pc = "idle" /\ caller[c].ret = "SUCCESS"
              /\ caller[c].call.op \in GetStateOps) =>
                 /\ OnlyMappedButtons(caller[c].out.Gamepad.wButtons)
                 /\ StripGuide(caller[c].out) = caller[c].out

\* get_state has delivered a pad decoded from a frame with all 16 bits of
\* its buttons field set and the d-pad up and right
C17_Witness ==
    /\ caller[Observer].pc = "idle" /\ caller[Observer].ret = "SUCCESS"
    /\ caller[Observer].call.op = "XInputGetState"
    /\ caller[Observer].out.Gamepad.wButtons
          = Or16(ButtonLoop(0, 65535, 0),
                 Or16(XINPUT_GAMEPAD_DPAD_UP, XINPUT_GAMEPAD_DPAD_RIGHT))
    /\ caller[Observer].out.Gamepad.bLeftTrigger = 255
    /\ caller[Observer].out = controller.state

\* C18: orderly teardown, holding the guard throughout, first clears
\* thread_running, then sends one RELEASE_GAMEPAD frame when the transport is
\* up, then closes the socket; when it returns, connected and enabled are
\* false and the socket is closed.
C18_TeardownInOrder ==
    [][/\ (dll = "d_enter" /\ dll' # dll) =>
             crit' = "loader" /\ ~thread_running' /\ sent' = sent
                /\ server_sock' = server_sock
       /\ (dll = "d_release" /\ dll' # dll) =>
             /\ crit = "loader" /\ crit' = "loader"
             /\ server_sock' = server_sock
             /\ sent' = IF server_sock # "invalid"
                        THEN Append(sent, <<REQUEST_CODE_RELEASE_GAMEPAD>>)
                        ELSE sent
       /\ (dll = "d_flags" /\ dll' # dll) =>
             crit = "loader" /\ crit' = "loader" /\ sent' = sent
       /\ (dll = "d_close" /\ dll' # dll) =>
             /\ crit = "loader" /\ sent' = sent
             /\ dll' = "d_done"
             /\ server_sock' = "invalid"
             /\ ~controller'.connected
             /\ ~controller'.enabled]_vars

\* C19: after orderly teardown has completed the pad (buttons, triggers,
\* axes, packet number) is all-zero, whatever the snapshot held before.
C19_TeardownZeroesPad ==
    [][(dll = "d_close" /\ dll' = "d_done") => controller'.state = ZeroState]_vars

\* the runtime state is left as it is, and no datagram is sent
RuntimeUnchanged ==
    UNCHANGED <<thread_running, controller, server_sock, winsock_loaded,
                xinput_min_index, crit, start_event, init_once, worker, sent>>

\* C20: a process-detach notification of a terminating process changes no
\* runtime state and sends no RELEASE_GAMEPAD; a non-terminating detach runs
\* the orderly teardown exactly once; process attach changes no runtime state
\* and does not start the worker.
C20_DetachAndAttach ==
    [][/\ (dll = "attached" /\ dll' # dll /\ hist'.reserved) =>
             dll' = "terminated" /\ RuntimeUnchanged
       /\ (dll = "attached" /\ dll' # dll /\ ~hist'.reserved) =>
             dll' = "d_enter" /\ hist'.destroys = 0
       /\ (dll = "d_enter" /\ dll' # dll) => hist'.destroys = 1
       /\ (dll \in {"d_release", "d_flags", "d_close", "d_done"}) =>
             hist'.destroys = 1 /\ ~hist'.reserved
       /\ dll = "terminated" =>
             dll' = dll /\ hist'.destroys = 0 /\ RuntimeUnchanged
       /\ (dll = "loaded" /\ dll' # dll) =>
             /\ dll' = "attached" /\ RuntimeUnchanged
             /\ worker'.pc = "none" /\ hist'.created = 0]_vars

\* the process is terminating with the controller connected and the worker
\* running: nothing was torn down and no RELEASE_GAMEPAD was sent
C20_Witness ==
    /\ dll = "terminated" /\ hist.reserved /\ hist.destroys = 0
    /\ controller.connected /\ controller.enabled /\ thread_running
    /\ server_sock = "bound" /\ xinput_min_index = 0
    /\ \A i \in 1 .. Len(sent) : sent[i][1] # REQUEST_CODE_RELEASE_GAMEPAD

\* the worker has returned from controller_read_thread_proc
WorkerTerminated == worker.pc \in {"w_done", "w_failed"}

\* C21: under fair scheduling, once orderly teardown has cleared
\* thread_running a started worker eventually terminates: it does not stay
\* blocked on the guard, on the receive, or in its loop.
C21_WorkerTerminates ==
    (hist.destroys = 1 /\ ~thread_running /\ worker.pc # "none")
        ~> WorkerTerminated

\* teardown is over and the worker, connected before, has left its loop at
\* the test of thread_running
C21_Witness ==
    /\ dll = "d_done" /\ hist.destroys = 1 /\ ~thread_running
    /\ worker.pc = "w_done" /\ worker.started
    /\ ~hist.recv_failed /\ hist.frames

\* every call returns the same code and output in ctl as in ctl with the
\* enabled flag inverted
EnabledIsIgnored(ctl, min_index) ==
    \A call \in FacadeCalls :
        FacadeResult(ctl, min_index, call)
            = FacadeResult([ctl EXCEPT !.enabled = ~@], min_index, call)

SaturatedCaps(caps) ==
    /\ caps.Type = XINPUT_DEVTYPE_GAMEPAD
    /\ caps.SubType = XINPUT_DEVSUBTYPE_GAMEPAD
    /\ caps.Gamepad.wButtons = 65535
    /\ caps.Gamepad.bLeftTrigger = 255 /\ caps.Gamepad.bRightTrigger = 255
    /\ \A axis \in {caps.Gamepad.sThumbLX, caps.Gamepad.sThumbLY,
                    caps.Gamepad.sThumbRX, caps.Gamepad.sThumbRY} :
          axis \in {32767, 65535, 0 - 1}

\* C23: every successful get_capabilities_ex returns the same fixed record:
\* type and subtype gamepad, button mask 0xFFFF, both trigger fields and all
\* four axis fields at their saturated values, vendor 0x045E and product
\* 0x02A1; get_capabilities returns the same record without the
\* vendor/product pair.
C23_CapabilitiesSaturated ==
    \A c \in Callers :
        (caller[c].pc = "idle" /\ caller[c].ret = "SUCCESS"
            /\ caller[c].call.op \in CapsOps) =>
               IF caller[c].call.op = "XInputGetCapabilitiesEx"
               THEN /\ SaturatedCaps(caller[c].out.Capabilities)
                    /\ caller[c].out.VendorId = 1118
                    /\ caller[c].out.ProductId = 673
               ELSE SaturatedCaps(caller[c].out)

\* the calls that validate the index and the connection and do nothing else
CheckedOps == {"XInputSetState"} \cup CapsOps \cup QueryOps

\* C24: for set_state, get_capabilities, get_capabilities_ex,
\* get_battery_information and get_dsound_audio_device_guids, index >= 4
\* yields BAD_ARGUMENTS; index 0 while connected yields SUCCESS (set_state,
\* capabilities) or NOT_SUPPORTED (battery, dsound); every other case yields
\* DEVICE_NOT_CONNECTED, whatever xinput_min_index is; and none of these
\* calls changes the pad, connected, the remote id or xinput_min_index or
\* sends a datagram.
C24_CheckedCalls ==
    [][\A c \in Callers :
          LET k == caller[c]
              n == caller'[c] IN
          (n # k /\ n.call.op \in CheckedOps) =>
             /\ controller'.state = controller.state
             /\ controller'.connected = controller.connected
             /\ controller'.id = controller.id
             /\ xinput_min_index' = xinput_min_index
             /\ sent' = sent
             /\ k.pc \in {"chk", "q_chk"} =>
                   IF k.call.index >= XUSER_MAX_COUNT
                   THEN n.pc = "idle" /\ n.ret = "BAD_ARGUMENTS"
                   ELSE IF k.call.index = 0 /\ controller.connected
                   THEN CASE k.call.op = "XInputSetState" ->
                                 n.pc = "idle" /\ n.ret = "SUCCESS"
                          [] k.call.op \in QueryOps ->
                                 n.pc = "idle" /\ n.ret = "NOT_SUPPORTED"
                          [] OTHER -> n.pc = "caps_body"
                   ELSE n.pc = "idle" /\ n.ret = "DEVICE_NOT_CONNECTED"
             /\ k.pc = "caps_body" => n.pc = "idle" /\ n.ret = "SUCCESS"]_vars

\* the controller is connected and get_state has made slot 1 the
\* controller's; get_battery_information(1) has answered
\* DEVICE_NOT_CONNECTED all the same
C24_Witness ==
    /\ controller.connected /\ xinput_min_index = 1
    /\ caller[Observer].pc = "idle"
    /\ caller[Observer].call.op = "XInputGetBatteryInformation"
    /\ caller[Observer].call.index = 1
    /\ caller[Observer].ret = "DEVICE_NOT_CONNECTED"

\* C25: for sequential get_state-family calls while connected, a call with
\* index i < 4 returns SUCCESS if and only if i is at most every index
\* passed to earlier get_state-family calls; a call with index >= 4 or a
\* null output returns BAD_ARGUMENTS and leaves xinput_min_index unchanged.
C25_SuccessIffLeastIndex ==
    [][LET k == caller[Observer]
           n == caller'[Observer] IN
       /\ (k.pc = "gs_conn" /\ n.pc # "gs_conn" /\ controller.connected) =>
             IF hist.below
             THEN n.pc = "gs_copy"
             ELSE n.pc = "idle" /\ n.ret = "DEVICE_NOT_CONNECTED"
       /\ (k.pc = "gs_copy" /\ n.pc # "gs_copy") =>
             n.pc = "idle" /\ n.ret = "SUCCESS"
       /\ (k.pc = "idle" /\ n # k /\ n.call.arg = 0) =>
             n.pc = "idle" /\ n.ret = "BAD_ARGUMENTS"
       /\ (k.pc = "gs_idx" /\ n.pc # "gs_idx"
              /\ k.call.index >= XUSER_MAX_COUNT) =>
             n.pc = "idle" /\ n.ret = "BAD_ARGUMENTS"
       /\ (n # k /\ n.pc = "idle" /\ n.ret = "BAD_ARGUMENTS") =>
             xinput_min_index' = xinput_min_index]_vars

\* while connected, get_state(1) is refused after a call with index 0
C25_Witness ==
    /\ controller.connected /\ hist.least = 0 /\ ~hist.below
    /\ xinput_min_index = 0
    /\ caller[Observer].pc = "idle"
    /\ caller[Observer].call = GetState("XInputGetState", 1, 1)
    /\ caller[Observer].ret = "DEVICE_NOT_CONNECTED"

\* the XINPUT flag that the wire's button bit i (0 .. 9) stands for: A, B,
\* X, Y, L1, R1, Select, Start, L3, R3
ButtonImages ==
    <<XINPUT_GAMEPAD_A, XINPUT_GAMEPAD_B, XINPUT_GAMEPAD_X, XINPUT_GAMEPAD_Y,
      XINPUT_GAMEPAD_LEFT_SHOULDER, XINPUT_GAMEPAD_RIGHT_SHOULDER,
      XINPUT_GAMEPAD_BACK, XINPUT_GAMEPAD_START,
      XINPUT_GAMEPAD_LEFT_THUMB, XINPUT_GAMEPAD_RIGHT_THUMB>>

\* pad g holds the buttons and triggers of wire word w and nothing
\* else outside the d-pad bits (bits 0 .. 3)
ButtonsDecoded(g, w) ==
    /\ \A p \in 4 .. 15 :
          (Bit(g.wButtons, p) = 1)
              <=> (\E i \in 0 .. 9 : /\ Bit(w, i) = 1
                                     /\ ButtonImages[i + 1] = 2 ^ p)
    /\ g.bLeftTrigger = (IF Bit(w, 10) = 1 THEN 255 ELSE 0)
    /\ g.bRightTrigger = (IF Bit(w, 11) = 1 THEN 255 ELSE 0)

\* C26: after an accepted GAMEPAD_STATE frame the non-dpad bits of the
\* pad's wButtons are exactly the images of the wire's button bits 0 .. 9,
\* each trigger is 255 when wire bit 10 / 11 is set and 0 otherwise; wire
\* bits 12 .. 15 and the pad held before have no part in the result.
C26_ButtonsAndTriggersDecoded ==
    [][FillStep =>
          ButtonsDecoded(controller'.state.Gamepad, worker.buffer.buttons)]_vars

\* a frame with bits 12 .. 15, SELECT and L2 set was decoded over a pad
\* that had every button and the right trigger: BACK and the left trigger
\* are all that is left
C26_Witness ==
    /\ worker.pc = "w_loop"
    /\ hist.decoded.frame.op = REQUEST_CODE_GET_GAMEPAD_STATE
    /\ hist.decoded.frame.buttons = 62528
    /\ hist.decoded.frame.dpad = 8
    /\ hist.decoded.from.wButtons = 65535 - XINPUT_GAMEPAD_GUIDE - 2048
                                       - XINPUT_GAMEPAD_DPAD_DOWN
                                       - XINPUT_GAMEPAD_DPAD_LEFT
    /\ hist.decoded.from.bRightTrigger = 255
    /\ controller.state.Gamepad.wButtons = XINPUT_GAMEPAD_BACK
    /\ controller.state.Gamepad.bLeftTrigger = 255
    /\ controller.state.Gamepad.bRightTrigger = 0

\* the d-pad bits the wire's dpad values 0 .. 7 stand for: Up, Up+Right,
\* Right, Right+Down, Down, Down+Left, Left, Left+Up
DpadImages ==
    <<XINPUT_GAMEPAD_DPAD_UP,
      XINPUT_GAMEPAD_DPAD_UP + XINPUT_GAMEPAD_DPAD_RIGHT,
      XINPUT_GAMEPAD_DPAD_RIGHT,
      XINPUT_GAMEPAD_DPAD_RIGHT + XINPUT_GAMEPAD_DPAD_DOWN,
      XINPUT_GAMEPAD_DPAD_DOWN,
      XINPUT_GAMEPAD_DPAD_DOWN + XINPUT_GAMEPAD_DPAD_LEFT,
      XINPUT_GAMEPAD_DPAD_LEFT,
      XINPUT_GAMEPAD_DPAD_LEFT + XINPUT_GAMEPAD_DPAD_UP>>

\* the d-pad bits (bits 0 .. 3) of a button word
DpadBits(w) == w % 16

\* flag is set in button word w
HasFlag(w, flag) == (w \div flag) % 2 = 1

\* the d-pad bits of pad g are those of dpad value d
DpadDecoded(g, d) ==
    /\ d \in 0 .. 7 => DpadBits(g.wButtons) = DpadImages[d + 1]
    /\ d \notin 0 .. 7 => DpadBits(g.wButtons) = 0
    /\ ~(HasFlag(g.wButtons, XINPUT_GAMEPAD_DPAD_UP)
           /\ HasFlag(g.wButtons, XINPUT_GAMEPAD_DPAD_DOWN))
    /\ ~(HasFlag(g.wButtons, XINPUT_GAMEPAD_DPAD_LEFT)
           /\ HasFlag(g.wButtons, XINPUT_GAMEPAD_DPAD_RIGHT))

\* C27: the d-pad decode maps the wire values 0 .. 7 to the eight pairwise
\* distinct d-pad bit sets Up, Up+Right, Right, Right+Down, Down,
\* Down+Left, Left, Left+Up, so that the wire value can be told from the
\* pad; any other byte sets no d-pad bit; Up is never set with Down nor
\* Left with Right.
C27_DpadDecoded ==
    [][FillStep =>
          /\ DpadDecoded(controller'.state.Gamepad, worker.buffer.dpad)
          /\ \A f \in FramesCodec :
                (/\ f.dpad \in 0 .. 7
                 /\ worker.buffer.dpad \in 0 .. 7
                 /\ DpadBits(UpdateFill(UpdateClear(controller.state), f)
                                 .Gamepad.wButtons)
                       = DpadBits(controller'.state.Gamepad.wButtons))
                    => f.dpad = worker.buffer.dpad]_vars

\* Down+Left (5) was decoded together with every button bit, over a pad
\* that held Up+Right
C27_Witness ==
    /\ worker.pc = "w_loop"
    /\ hist.decoded.frame.op = REQUEST_CODE_GET_GAMEPAD_STATE
    /\ hist.decoded.frame.dpad = 5
    /\ hist.decoded.frame.buttons = 65535
    /\ HasFlag(hist.decoded.from.wButtons, XINPUT_GAMEPAD_DPAD_UP)
    /\ HasFlag(hist.decoded.from.wButtons, XINPUT_GAMEPAD_DPAD_RIGHT)
    /\ DpadBits(controller.state.Gamepad.wButtons)
          = XINPUT_GAMEPAD_DPAD_DOWN + XINPUT_GAMEPAD_DPAD_LEFT

\* the value the claim gives for a negated axis
Negated(v) == IF v = 0 - 32768 THEN 0 - 32768 ELSE 0 - v

\* C28: after an accepted GAMEPAD_STATE frame with wire axes (lx, ly, rx,
\* ry) the pad holds lx and rx unchanged and the 16-bit two's-complement
\* negation of ly and ry: the arithmetic negation for every value other
\* than -32768, and -32768 for -32768.
C28_AxesDecoded ==
    [][FillStep =>
          /\ controller'.state.Gamepad.sThumbLX = worker.buffer.lx
          /\ controller'.state.Gamepad.sThumbRX = worker.buffer.rx
          /\ controller'.state.Gamepad.sThumbLY = Negated(worker.buffer.ly)
          /\ controller'.state.Gamepad.sThumbRY = Negated(worker.buffer.ry)]_vars

\* ly = -32768 and ry = 32767 were decoded, with lx = -1 and rx = 1
C28_Witness ==
    /\ worker.pc = "w_loop"
    /\ hist.decoded.frame.op = REQUEST_CODE_GET_GAMEPAD_STATE
    /\ hist.decoded.frame.lx = 0 - 1
    /\ hist.decoded.frame.ly = 0 - 32768
    /\ hist.decoded.frame.rx = 1
    /\ hist.decoded.frame.ry = 32767
    /\ hist.decoded.from.sThumbLY = 7
    /\ controller.state.Gamepad.sThumbLX = 0 - 1
    /\ controller.state.Gamepad.sThumbLY = 0 - 32768
    /\ controller.state.Gamepad.sThumbRX = 1
    /\ controller.state.Gamepad.sThumbRY = 0 - 32767

\* the worker finishes handling a GET_GAMEPAD reply
ReplyStep ==
    /\ worker.pc = "w_dispatch" /\ worker'.pc = "w_loop"
    /\ worker.buffer.op = REQUEST_CODE_GET_GAMEPAD

\* the step calls SetEvent(start_event)
GateSignalled == hist'.signals = hist.signals + 1

\* C29 as stated: when the worker processes a GET_GAMEPAD reply it signals
\* the readiness gate if and only if that reply is the first frame
\* delivered since the worker started, and the gate is signalled at most
\* once in the worker's lifetime.
C29_SignalsIffFirstFrame ==
    [][/\ ReplyStep => (GateSignalled <=> hist.order.delivered = 1)
       /\ hist'.signals <= 1]_vars

\* C29: when the worker processes a GET_GAMEPAD reply it signals the
\* readiness gate if and only if that reply is the first GET_GAMEPAD reply
\* it handles since it started, whatever frames were delivered before; the
\* gate is signalled at most once in the worker's lifetime.
C29_SignalsIffFirstReply ==
    [][/\ ReplyStep => (GateSignalled <=> hist.order.replies = 0)
       /\ hist'.signals <= 1]_vars

\* the first GET_GAMEPAD reply was the second frame delivered and the
\* worker signalled the gate when it handled it
C29_Witness ==
    /\ worker.pc = "w_loop" /\ worker.started
    /\ hist.order.delivered = 2 /\ hist.order.replies = 1
    /\ hist.signals = 1 /\ ~hist.bringup_failed

\* the worker passes through the loop without a frame
WouldBlockStep == worker.pc = "w_recv" /\ worker'.pc = "w_loop"

\* the worker receives a frame, or handles the one it received
FrameStep ==
    \/ worker.pc = "w_recv" /\ worker'.pc = "w_dispatch"
    \/ worker.pc = "w_dispatch"

\* C30: after the initial GET_GAMEPAD announcement, in each pass of the
\* loop where the receive would block the worker sends one GET_GAMEPAD
\* frame (bytes 8, 1, 1) and sets last_announce to the time it read if and
\* only if at least 2000 ms have passed since last_announce, and otherwise
\* sends nothing and leaves last_announce; it sends nothing in a pass where
\* a frame was received; the controller being connected or not plays no
\* part.
C30_HeartbeatEveryTwoSeconds ==
    [][/\ WouldBlockStep =>
            IF hist'.time.uptime - hist.time.announced >= 2000
            THEN /\ sent' = Append(sent, <<REQUEST_CODE_GET_GAMEPAD, 1, 1>>)
                 /\ worker'.last_time = hist'.time.clock
            ELSE /\ sent' = sent
                 /\ worker'.last_time = worker.last_time
       /\ FrameStep => /\ sent' = sent
                       /\ worker'.last_time = worker.last_time]_vars

\* the worker has sent its announcement and two heartbeats, one while the
\* controller was connected and one while it was not, and its clock has
\* wrapped
C30_Witness ==
    /\ worker.pc = "w_loop"
    /\ sent = <<GetGamepadRequest, GetGamepadRequest, GetGamepadRequest>>
    /\ hist.time.beats = {TRUE, FALSE}
    /\ hist.time.clock = DW(hist.time.uptime - 1500)
    /\ worker.last_time = hist.time.clock

\* the sources of events in the order of the claim: the masks of the 14
\* buttons, then the two triggers and the two sticks, and the names of
\* their virtual keys (for a stick, of the key its offsets are added to)
SourceMasks ==
    <<XINPUT_GAMEPAD_DPAD_UP, XINPUT_GAMEPAD_DPAD_DOWN,
      XINPUT_GAMEPAD_DPAD_LEFT, XINPUT_GAMEPAD_DPAD_RIGHT,
      XINPUT_GAMEPAD_START, XINPUT_GAMEPAD_BACK,
      XINPUT_GAMEPAD_LEFT_THUMB, XINPUT_GAMEPAD_RIGHT_THUMB,
      XINPUT_GAMEPAD_LEFT_SHOULDER, XINPUT_GAMEPAD_RIGHT_SHOULDER,
      XINPUT_GAMEPAD_A, XINPUT_GAMEPAD_B, XINPUT_GAMEPAD_X, XINPUT_GAMEPAD_Y>>

SourceKeys ==
    <<"VK_PAD_DPAD_UP", "VK_PAD_DPAD_DOWN", "VK_PAD_DPAD_LEFT",
      "VK_PAD_DPAD_RIGHT", "VK_PAD_START", "VK_PAD_BACK",
      "VK_PAD_LTHUMB_PRESS", "VK_PAD_RTHUMB_PRESS", "VK_PAD_LSHOULDER",
      "VK_PAD_RSHOULDER", "VK_PAD_A", "VK_PAD_B", "VK_PAD_X", "VK_PAD_Y",
      "VK_PAD_LTRIGGER", "VK_PAD_RTRIGGER",
      "VK_PAD_LTHUMB_UP", "VK_PAD_RTHUMB_UP">>

\* source k differs between the pad cur and last_keystroke last
PendingAt(cur, last, k) ==
    IF k <= 14
    THEN HasFlag(cur.wButtons, SourceMasks[k]) # HasFlag(last.wButtons, SourceMasks[k])
    ELSE IF k = 15 THEN (cur.bLeftTrigger > 30) # (last.bLeftTrigger > 30)
    ELSE IF k = 16 THEN (cur.bRightTrigger > 30) # (last.bRightTrigger > 30)
    ELSE IF k = 17 THEN StickOf(cur, "L") # StickOf(last, "L")
    ELSE StickOf(cur, "R") # StickOf(last, "R")

\* after differs from before in nothing but what belongs to source k (and,
\* for the right stick, the left stick's axes, which are those of cur)
OnlySourceUpdated(before, after, cur, k) ==
    IF k <= 14
    THEN /\ after = [before EXCEPT !.wButtons = after.wButtons]
         /\ \A j \in (1 .. 14) \ {k} :
               HasFlag(after.wButtons, SourceMasks[j])
                   = HasFlag(before.wButtons, SourceMasks[j])
         /\ Bit(after.wButtons, 10) = Bit(before.wButtons, 10)
         /\ Bit(after.wButtons, 11) = Bit(before.wButtons, 11)
    ELSE IF k = 15
    THEN after = [before EXCEPT !.bLeftTrigger = after.bLeftTrigger]
    ELSE IF k = 16
    THEN after = [before EXCEPT !.bRightTrigger = after.bRightTrigger]
    ELSE IF k = 17
    THEN after = [before EXCEPT !.sThumbLX = after.sThumbLX,
                                !.sThumbLY = after.sThumbLY]
    ELSE after = [before EXCEPT !.sThumbLX = cur.sThumbLX,
                                !.sThumbLY = cur.sThumbLY,
                                !.sThumbRX = after.sThumbRX,
                                !.sThumbRY = after.sThumbRY]

\* the sources that differ
PendingSources(cur, last) == {k \in 1 .. 18 : PendingAt(cur, last, k)}

\* the synthesizer returns to the caller
SynthReturns ==
    /\ caller[Observer].pc \in {"ks_scan", "ks_emit"}
    /\ caller'[Observer].pc = "idle"

\* C31: each synthesizer call reports only the highest-priority pending
\* difference in the order DPAD_UP, DPAD_DOWN, DPAD_LEFT, DPAD_RIGHT, START,
\* BACK, L3, R3, L1, R1, A, B, X, Y, left trigger, right trigger, left
\* stick, right stick; on SUCCESS it updates last_keystroke only for the
\* source it reports (and mirrors the left stick's axes when it reports the
\* right stick), so that every lower-priority difference stays pending.
C31_HighestPriorityOnly ==
    [][SynthReturns =>
          LET cur == controller.state.Gamepad
              before == controller.last_keystroke
              after == controller'.last_keystroke
              pending == PendingSources(cur, before) IN
          IF pending = {}
          THEN caller'[Observer].ret = "EMPTY"
          ELSE LET k == CHOOSE x \in pending : \A y \in pending : x <= y IN
               /\ caller'[Observer].ret = "SUCCESS"
               /\ caller'[Observer].out.VirtualKey.base = SourceKeys[k]
               /\ OnlySourceUpdated(before, after, cur, k)
               /\ \A j \in (k + 1) .. 18 :
                     PendingAt(cur, after, j) = PendingAt(cur, before, j)]_vars

\* from a last_keystroke with nothing set, a pad with every button, both
\* triggers and both sticks away has had its first three polls: DPAD_UP,
\* DPAD_RIGHT and START were reported, and the rest is still pending
C31_Witness ==
    /\ caller[Observer].pc = "idle"
    /\ Len(hist.log) = 3
    /\ hist.start = ZeroGamepad
    /\ hist.log[1].event = Keystroke(Vk("VK_PAD_DPAD_UP", 0), "KEYDOWN")
    /\ hist.log[2].event = Keystroke(Vk("VK_PAD_DPAD_RIGHT", 0), "KEYDOWN")
    /\ hist.log[3].event = Keystroke(Vk("VK_PAD_START", 0), "KEYDOWN")
    /\ PendingSources(controller.state.Gamepad, controller.last_keystroke)
          = 6 .. 18
    /\ controller.last_keystroke.wButtons
          = XINPUT_GAMEPAD_DPAD_UP + XINPUT_GAMEPAD_DPAD_RIGHT
              + XINPUT_GAMEPAD_START

\* the claim's quantization of an axis value: 1 for HIGH, -1 for LOW, 0 for
\* OFF
Quantized(v) == IF v > 20000 THEN 1 ELSE IF v < 0 - 20000 THEN 0 - 1 ELSE 0

\* the claim's offsets: UP 0, DOWN 1, RIGHT 2, LEFT 3, UP-LEFT 4, UP-RIGHT 5,
\* DOWN-RIGHT 6, DOWN-LEFT 7, for x and y quantized
DirectionOffset(qx, qy) ==
    CASE qx = 0 /\ qy = 1 -> 0
      [] qx = 0 /\ qy = 0 - 1 -> 1
      [] qx = 1 /\ qy = 0 -> 2
      [] qx = 0 - 1 /\ qy = 0 -> 3
      [] qx = 0 - 1 /\ qy = 1 -> 4
      [] qx = 1 /\ qy = 1 -> 5
      [] qx = 1 /\ qy = 0 - 1 -> 6
      [] qx = 0 - 1 /\ qy = 0 - 1 -> 7

\* the claim's virtual key of a stick at (x, y): none when both axes are OFF
DirectionKey(base, x, y) ==
    IF Quantized(x) = 0 /\ Quantized(y) = 0 THEN NoVk
    ELSE Vk(base, DirectionOffset(Quantized(x), Quantized(y)))

\* the event of a stick whose key went from before to now
DirectionEvent(before, now) ==
    IF before # NoVk THEN Keystroke(before, "KEYUP") ELSE Keystroke(now, "KEYDOWN")

\* C32: each axis quantizes to HIGH iff its value is above 20000, LOW iff
\* below -20000, else OFF; a stick yields the virtual key base + offset with
\* the offsets UP 0, DOWN 1, RIGHT 2, LEFT 3, UP-LEFT 4, UP-RIGHT 5,
\* DOWN-RIGHT 6, DOWN-LEFT 7, and no virtual key exactly when both axes are
\* OFF.  Stated on the events of a pad without buttons and triggers: the
\* keys reported are those of the pad's and last_keystroke's axes.
C32_SticksQuantized ==
    [][SynthReturns =>
          LET cur == controller.state.Gamepad
              last == controller.last_keystroke
              lc == DirectionKey("VK_PAD_LTHUMB_UP", cur.sThumbLX, cur.sThumbLY)
              ll == DirectionKey("VK_PAD_LTHUMB_UP", last.sThumbLX, last.sThumbLY)
              rc == DirectionKey("VK_PAD_RTHUMB_UP", cur.sThumbRX, cur.sThumbRY)
              rl == DirectionKey("VK_PAD_RTHUMB_UP", last.sThumbRX, last.sThumbRY) IN
          /\ \A v \in {cur.sThumbLX, cur.sThumbLY, cur.sThumbRX, cur.sThumbRY} :
                /\ joystick_state(v) = JS_STATE_HIGH <=> v > 20000
                /\ joystick_state(v) = JS_STATE_LOW <=> v < 0 - 20000
                /\ joystick_state(v) = JS_STATE_OFF <=> Quantized(v) = 0
          /\ StickOf(cur, "L") = lc /\ StickOf(cur, "R") = rc
          /\ (cur.wButtons = last.wButtons
                 /\ cur.bLeftTrigger = last.bLeftTrigger
                 /\ cur.bRightTrigger = last.bRightTrigger) =>
                IF lc # ll
                THEN caller'[Observer].out = DirectionEvent(ll, lc)
                ELSE IF rc # rl
                     THEN caller'[Observer].out = DirectionEvent(rl, rc)
                     ELSE caller'[Observer].ret = "EMPTY"]_vars

\* from a centred last_keystroke, a left stick at (-20001, -32768) was
\* reported as DOWN-LEFT, and the next poll found nothing
C32_Witness ==
    /\ caller[Observer].pc = "idle"
    /\ hist.start = ZeroGamepad
    /\ controller.state.Gamepad.sThumbLX = 0 - 20001
    /\ controller.state.Gamepad.sThumbLY = 0 - 32768
    /\ Len(hist.log) = 2
    /\ hist.log[1] = [ret |-> "SUCCESS",
                      event |-> Keystroke(Vk("VK_PAD_LTHUMB_UP", 7), "KEYDOWN")]
    /\ hist.log[2].ret = "EMPTY"

\* the completely applied snapshots there are while the worker is where it
\* is: the pad, or, in the middle of controller_update_state, the pad
\* before the frame and the pad after it
WholeSnapshots ==
    IF worker.pc = "w_fill"
    THEN {hist.decoded.from, UpdateFill(controller.state, worker.buffer).Gamepad}
    ELSE {controller.state.Gamepad}

\* event e is a difference between last_keystroke last and the snapshot s
\* at source k
DifferenceAt(e, last, s, k) ==
    /\ e.VirtualKey.base = SourceKeys[k]
    /\ PendingAt(s, last, k)
    /\ IF k <= 14
       THEN e.Flags = (IF HasFlag(s.wButtons, SourceMasks[k])
                       THEN "KEYDOWN" ELSE "KEYUP")
       ELSE IF k = 15
       THEN e.Flags = (IF s.bLeftTrigger > 30 THEN "KEYDOWN" ELSE "KEYUP")
       ELSE IF k = 16
       THEN e.Flags = (IF s.bRightTrigger > 30 THEN "KEYDOWN" ELSE "KEYUP")
       ELSE LET stick == IF k = 17 THEN "L" ELSE "R" IN
            e = DirectionEvent(StickOf(last, stick), StickOf(s, stick))

\* C33: with the worker applying frames while a caller polls get_keystroke,
\* every event reported is a difference between last_keystroke and a
\* completely applied snapshot; in particular no KEYUP is reported for a
\* button that is set in the frame applied before and in the frame being
\* applied.
C33_EventsFromWholeSnapshots ==
    [][(SynthReturns /\ caller'[Observer].ret = "SUCCESS") =>
          \E s \in WholeSnapshots, k \in 1 .. 18 :
              DifferenceAt(caller'[Observer].out, controller.last_keystroke, s, k)]_vars

\* the worker handles the GAMEPAD_STATE frame it has received
StateFrameStep ==
    /\ worker.pc \in {"w_dispatch", "w_update", "w_fill"}
    /\ worker.buffer.op = REQUEST_CODE_GET_GAMEPAD_STATE
    /\ worker' # worker

\* C34: a GAMEPAD_STATE frame received while connected is false changes
\* nothing of the controller (pad, packet number, connected, id), whatever
\* its status and id, and is dropped; connected becomes true only when the
\* worker handles a GET_GAMEPAD reply with id > 0.
C34_StateFramesIgnoredUnconnected ==
    [][/\ (StateFrameStep /\ ~hist.order.connected) =>
            (controller' = controller /\ worker'.pc = "w_loop")
       /\ ConnectStep => (ReplyStep /\ worker.buffer.id > 0)]_vars

\* a GAMEPAD_STATE frame with status 1 and the controller's id was received
\* and dropped while the controller, connected before, was disconnected
C34_Witness ==
    /\ hist.order.dropped /\ ~hist.order.connected
    /\ worker.pc = "w_loop"
    /\ ~controller.connected /\ controller.id = 1
    /\ controller.state = ZeroState

\* the polls of the log that returned SUCCESS
Successes == {i \in 1 .. Len(hist.log) : hist.log[i].ret = "SUCCESS"}

\* last_keystroke last agrees with the pad cur on the 14 button bits, on
\* each trigger being on or off and on the four axis values
Drained(cur, last) ==
    /\ \A k \in 1 .. 14 :
          HasFlag(cur.wButtons, SourceMasks[k]) = HasFlag(last.wButtons, SourceMasks[k])
    /\ trigger_is_on(cur.bLeftTrigger) = trigger_is_on(last.bLeftTrigger)
    /\ trigger_is_on(cur.bRightTrigger) = trigger_is_on(last.bRightTrigger)
    /\ cur.sThumbLX = last.sThumbLX /\ cur.sThumbLY = last.sThumbLY
    /\ cur.sThumbRX = last.sThumbRX /\ cur.sThumbRY = last.sThumbRY

\* C35: while the snapshot does not change, the get_keystroke calls of one
\* caller return SUCCESS at most 20 times and then EMPTY on every further
\* call; when EMPTY has been returned last_keystroke agrees with the pad on
\* all 14 button bits, on each trigger's on/off status and exactly on the
\* four axis values.
C35_DrainsWithinTwenty ==
    /\ Cardinality(Successes) <= 20
    /\ \A i \in 1 .. Len(hist.log) :
          /\ hist.log[i].ret \in {"SUCCESS", "EMPTY"}
          /\ hist.log[i].ret = "EMPTY" =>
                \A j \in i .. Len(hist.log) : hist.log[j].ret = "EMPTY"
    /\ (/\ caller[Observer].pc = "idle" /\ hist.log # <<>>
        /\ hist.log[Len(hist.log)].ret = "EMPTY") =>
          Drained(controller.state.Gamepad, controller.last_keystroke)

\* twenty polls returned SUCCESS (14 buttons, 2 triggers, a KEYUP and a
\* KEYDOWN for each stick) and the two after them EMPTY
C35_Witness ==
    /\ caller[Observer].pc = "idle"
    /\ Len(hist.log) = 22
    /\ Successes = 1 .. 20
    /\ hist.log[21].ret = "EMPTY" /\ hist.log[22].ret = "EMPTY"
    /\ hist.log[17].event = Keystroke(Vk("VK_PAD_LTHUMB_UP", 7), "KEYUP")
    /\ hist.log[18].event = Keystroke(Vk("VK_PAD_LTHUMB_UP", 0), "KEYDOWN")
    /\ Drained(controller.state.Gamepad, controller.last_keystroke)

\* the polls before poll i of the log that reported key v
EarlierEvents(v, i) ==
    {j \in 1 .. (i - 1) : hist.log[j].ret = "SUCCESS"
                            /\ hist.log[j].event.VirtualKey = v}

\* key v is down before poll i: its latest event is a KEYDOWN
DownBefore(v, i) ==
    /\ EarlierEvents(v, i) # {}
    /\ \E j \in EarlierEvents(v, i) :
          /\ \A m \in EarlierEvents(v, i) : m <= j
          /\ hist.log[j].event.Flags = "KEYDOWN"

\* C36: for a single caller starting from a zeroed last_keystroke, the
\* events reported for each virtual key alternate KEYDOWN, KEYUP, KEYDOWN,
\* ... beginning with KEYDOWN, across any frames, disconnects and
\* reconnects, and for each stick at most one direction key is down at a
\* time.
C36_EventsAlternate ==
    \A i \in 1 .. Len(hist.log) :
        hist.log[i].ret = "SUCCESS" =>
            LET e == hist.log[i].event IN
            /\ e.Flags = (IF DownBefore(e.VirtualKey, i) THEN "KEYUP" ELSE "KEYDOWN")
            /\ (/\ e.Flags = "KEYDOWN"
                /\ e.VirtualKey.base \in {"VK_PAD_LTHUMB_UP", "VK_PAD_RTHUMB_UP"}) =>
                  \A o \in 0 .. 7 : ~DownBefore(Vk(e.VirtualKey.base, o), i)

\* C37: after orderly teardown has completed connected stays false, whatever
\* frame the worker had received or was processing when teardown ran.
C37_DisconnectedAfterTeardown == dll = "d_done" => ~controller.connected

\* teardown has sent the RELEASE_GAMEPAD datagram
ReleaseSent == \E i \in 1 .. Len(sent) : sent[i] = ReleaseGamepadRequest

\* C38: the RELEASE_GAMEPAD datagram sent by teardown is the last datagram
\* sent, and the socket stays closed after teardown: once the release is
\* sent the worker sends no GET_GAMEPAD and creates no socket.
C38_ReleaseIsLast ==
    [][/\ ReleaseSent =>
            /\ sent' = sent
            /\ server_sock = "invalid" => server_sock' = "invalid"
       /\ dll = "d_done" => server_sock' = "invalid"]_vars

\* C39: the worker calls SetEvent(start_event) only while the starter still
\* holds the event open: no signal is issued after the starter's wait has
\* timed out and the handle has been closed.
C39_SignalsWhileOpen ==
    [][hist'.signals # hist.signals => start_event.handle = "open"]_vars

\* the stored capabilities have subtype gamepad
SubTypeGamepad(ctl) == ctl.caps.SubType = XINPUT_DEVSUBTYPE_GAMEPAD

\* C40: every facade call releases the guard before it returns, so no
\* caller is left holding it: the early DEVICE_NOT_CONNECTED return of
\* get_capabilities_ex, taken with the guard held when the gamepad flag is
\* set and the stored subtype is not gamepad, is never taken, because a call
\* reaches it only after it observed connected true and the capabilities
\* keep subtype gamepad from the first initialization on.
C40_GuardNeverLeftHeld ==
    [][/\ crit' \notin Callers
       /\ SubTypeGamepad(controller) => SubTypeGamepad(controller')
       /\ controller'.connected => SubTypeGamepad(controller')
       /\ \A c \in Callers :
             caller'[c].pc = "caps_body" => SubTypeGamepad(controller')]_vars

\* one caller's get_capabilities with the gamepad flag has returned SUCCESS
\* and the guard is free, while the other caller, with the gamepad flag too,
\* has passed the connection check and the controller has been
\* disconnected since
C40_Witness ==
    /\ crit = "free"
    /\ caller["c1"].pc = "idle" /\ caller["c1"].call.op \in CapsOps
    /\ caller["c1"].call.arg = XINPUT_FLAG_GAMEPAD
    /\ caller["c1"].ret = "SUCCESS"
    /\ caller["c2"].pc = "caps_body"
    /\ caller["c2"].call.arg = XINPUT_FLAG_GAMEPAD
    /\ ~controller.connected

=============================================================================
